---- MODULE Spec2Model ----
(***************************************************************************)
(* Model of the simplified HTML5 parsing core: the character-level         *)
(* tokenizer (src/src/parser.py, HTMLTokenizer), the tree builder          *)
(* (HTMLParser) with its trace recorder, the sandbox executor              *)
(* (src/src/robustness.py, SandboxWrapper) and the nesting auditor         *)
(* (src/src/verifiers.py, SemanticComplianceAuditor).                      *)
(*                                                                         *)
(* A text is a sequence of one-character strings.  Names and values that   *)
(* the code builds by string concatenation are TLA+ strings built with \o. *)
(* A tree is an arena: nodes[i] is the TreeNode with handle i, children    *)
(* and parent are handles, 0 is "no parent".                               *)
(***************************************************************************)
EXTENDS Integers, Sequences, FiniteSets, TLC

(***************************************************************************)
(* Bounds of the model.                                                    *)
(***************************************************************************)
\* longest input assembled from the fragments of Pieces
MaxPieces == 4
\* longest input enumerated character by character over Alphabet
MaxLen == 4

(***************************************************************************)
(* Characters: str.isalpha, str.isspace and str.lower on the characters    *)
(* the inputs are made of.                                                 *)
(***************************************************************************)
None == "None"

LowerLetters ==
    {"a", "b", "c", "d", "h", "i", "l", "m", "p", "r", "t", "u", "v", "x"}
UpperLetters == {"A", "B", "D", "H", "I", "P", "R", "V", "X"}
Spaces == {" "}

isalpha(c) == c \in LowerLetters \cup UpperLetters

isspace(c) == c \in Spaces

\* faulty variant of lower: the character is kept as written
lower_AsWritten(c) == c

lower(c) ==
    CASE c = "A" -> "a"
      [] c = "B" -> "b"
      [] c = "D" -> "d"
      [] c = "H" -> "h"
      [] c = "I" -> "i"
      [] c = "P" -> "p"
      [] c = "R" -> "r"
      [] c = "V" -> "v"
      [] c = "X" -> "x"
      [] OTHER -> c

(***************************************************************************)
(* TokenType, Token, the tokenizer states and the fixed tag sets.          *)
(***************************************************************************)
START_TAG == "StartTag"
END_TAG == "EndTag"
CHARACTER == "Character"
EOF == "EOF"

DATA == "DATA"
TAG_OPEN == "TAG_OPEN"
END_TAG_OPEN == "END_TAG_OPEN"
TAG_NAME == "TAG_NAME"
BEFORE_ATTR_NAME == "BEFORE_ATTR_NAME"
ATTR_NAME == "ATTR_NAME"
BEFORE_ATTR_VALUE == "BEFORE_ATTR_VALUE"
ATTR_VALUE_DQ == "ATTR_VALUE_DQ"
ATTR_VALUE_SQ == "ATTR_VALUE_SQ"
ATTR_VALUE_UQ == "ATTR_VALUE_UQ"
SELF_CLOSING == "SELF_CLOSING"

VOID_ELEMENTS ==
    {"area", "base", "br", "col", "embed", "hr", "img", "input",
     "link", "meta", "param", "source", "track", "wbr"}

SPECIAL_END_TAGS ==
    {"div", "blockquote", "section", "article", "nav", "aside",
     "header", "footer", "h1", "h2", "h3", "h4", "h5", "h6"}

\* an empty attribute dict, and dict[k] = v
EmptyDict == [k \in {} |-> ""]

\* faulty variant of SetItem: a key that is present keeps its value
SetItem_FirstWins(d, k, v) ==
    [y \in DOMAIN d \cup {k} |-> IF y \in DOMAIN d THEN d[y] ELSE v]

SetItem(d, k, v) == [y \in DOMAIN d \cup {k} |-> IF y = k THEN v ELSE d[y]]

\* Token(type, name=..., data=...) with the dataclass defaults
Token(type, name, data) ==
    [type |-> type, name |-> name, attributes |-> EmptyDict,
     self_closing |-> FALSE, data |-> data]

\* current_token = None
NoToken == [type |-> None]

(***************************************************************************)
(* The input texts.                                                        *)
(***************************************************************************)
\* fragments of markup: <p> <h1> <b> <br> <b/> </p> </html> x
Pieces ==
    { <<"<", "p", ">">>,
      <<"<", "h", "1", ">">>,
      <<"<", "b", ">">>,
      <<"<", "b", "r", ">">>,
      <<"<", "b", "/", ">">>,
      <<"<", "/", "p", ">">>,
      <<"<", "/", "h", "t", "m", "l", ">">>,
      <<"x">> }

RECURSIVE PieceInputs(_)
PieceInputs(n) ==
    IF n = 0 THEN {<<>>}
    ELSE LET S == PieceInputs(n - 1)
         IN  S \cup {s \o p : s \in S, p \in Pieces}

Alphabet == {"<", ">", "/", "p", " ", "=", "'"}

RECURSIVE CharInputs(_)
CharInputs(n) ==
    IF n = 0 THEN {<<>>}
    ELSE LET S == CharInputs(n - 1)
         IN  S \cup {Append(s, c) : s \in S, c \in Alphabet}

\* <i a=1 c='2' d="3"/>   <P a>x</P>   <p a b=1/>
FixedInputs ==
    { <<"<", "i", " ", "a", "=", "1", " ", "c", "=", "'", "2", "'", " ",
        "d", "=", "\"", "3", "\"", "/", ">">>,
      <<"<", "P", " ", "a", ">", "x", "<", "/", "P", ">">>,
      <<"<", "p", " ", "a", " ", "b", "=", "1", "/", ">">> }

Inputs == PieceInputs(MaxPieces) \cup CharInputs(MaxLen) \cup FixedInputs

(***************************************************************************)
(* Tags with attributes, as the tokenizer tests write them: a text 'X',    *)
(* then '<' or '</', a tag name, the attributes, each after one space and  *)
(* written  name  or  name="v"  or  name='v'  or  name=v,  then '>' or     *)
(* '/>'.  A tag is described by a record; TagText is its text.             *)
(***************************************************************************)
\* most attributes in one tag
MaxAttrs == 2

TagNames == {<<"p">>, <<"B", "r">>}

AttrNames == {<<"a">>, <<"A">>, <<"b">>}

AttrValues == {<<>>, <<"V">>}

BOOL == "bool"
DQ == "dq"
SQ == "sq"
UQ == "uq"

Attrs ==
    [name : AttrNames, style : {BOOL}, v : {<<>>}]
        \cup [name : AttrNames, style : {DQ, SQ, UQ}, v : AttrValues]

RECURSIVE AttrSeqs(_)
AttrSeqs(n) ==
    IF n = 0 THEN {<<>>}
    ELSE LET S == AttrSeqs(n - 1)
         IN  S \cup {Append(s, a) : s \in S, a \in Attrs}

Written ==
    [open : {<<"<">>}, tag : TagNames, attrs : AttrSeqs(MaxAttrs),
     close : {<<">">>, <<"/", ">">>}]
        \cup [open : {<<"<", "/">>}, tag : {<<"B", "r">>},
              attrs : AttrSeqs(MaxAttrs), close : {<<">">>}]

\* a text that is not described
NoTag == [open |-> <<>>, tag |-> <<>>, attrs |-> <<>>, close |-> <<>>]

AttrText(a) ==
    <<" ">> \o a.name \o
        CASE a.style = BOOL -> <<>>
          [] a.style = DQ -> <<"=", "\"">> \o a.v \o <<"\"">>
          [] a.style = SQ -> <<"=", "'">> \o a.v \o <<"'">>
          [] a.style = UQ -> <<"=">> \o a.v

RECURSIVE AttrsText(_)
AttrsText(as) ==
    IF as = <<>> THEN <<>> ELSE AttrText(Head(as)) \o AttrsText(Tail(as))

TagText(w) == <<"X">> \o w.open \o w.tag \o AttrsText(w.attrs) \o w.close

(***************************************************************************)
(* State.                                                                  *)
(***************************************************************************)
VARIABLES
    html,               \* the text given to parse
    written,            \* history: the tag html was written from (see
                        \* Written), NoTag for the other texts
    pending,            \* the texts of the caller's later parse calls
    returned,           \* what the caller's earlier calls returned
    violations,         \* SemanticComplianceAuditor.violations
    audit_result,       \* the record the last audit returned
    audits,             \* history: number of audit calls so far
    pc,                 \* where parse is: "start", "tokenize" (in the scan
                        \* loop), "break" (left it by break), "tokenized",
                        \* "build" (in the token loop), "done" (returned),
                        \* or the exception that ended it; for a caller of
                        \* audit, "built" (a tree is ready) or "audited"
    pos,                \* HTMLTokenizer.pos
    state,              \* HTMLTokenizer.state
    reconsume,          \* HTMLTokenizer.reconsume
    current_token,      \* HTMLTokenizer.current_token
    current_attr_name,  \* HTMLTokenizer.current_attr_name
    current_attr_value, \* HTMLTokenizer.current_attr_value
    tokens,             \* the list tokenize builds and returns
    events,             \* ParsingTrace.events (type and details)
    nodes,              \* the TreeNode objects created so far, by handle
    open_elements,      \* HTMLParser.open_elements, handles, bottom first
    idx,                \* number of tokens the builder loop has taken
    node_token,         \* history: node_token[i] is the index in tokens of the
                        \* start tag nodes[i] was created for, 0 for the root
    iterations,         \* history: iterations of the scan loop so far
    replayed,           \* history: the last iteration set the reconsume flag
    caller,             \* where safe_parse is: "start", "join", "is_alive",
                        \* "terminate", "queue" or "returned"; "parse" or
                        \* "tokenize" when that function is called directly,
                        \* "audit" for a caller of the auditor
    worker,             \* the worker process: "none", "unstarted", "running",
                        \* "put", "blocked", "flushed", "exited", "terminated"
    queue,              \* the message queue.put handed to the feeder thread
    pipe,               \* what the caller's end of the queue can read
    result,             \* the value safe_parse returns
    is_alive,           \* what process.is_alive() returned to safe_parse
    join_saw,           \* history: the worker when process.join(timeout)
                        \* returned
    tool,               \* the last call of verify, compare, select_by_id,
                        \* select_by_tag or serialize: its arguments and
                        \* what it returned
    wild_html,          \* generate_wild_html: the local html, piece by piece
    fuzz_stack,         \* generate_wild_html: the local stack
    step,               \* generate_wild_html: iterations of the loop so far
    complexity,         \* generate_wild_html: its argument
    running,            \* 0 while the caller has one parse call at a time;
                        \* with two calls in progress, the number (1 or 2)
                        \* of the call whose tokenizer, parser and trace the
                        \* variables above describe
    parked,             \* the tokenizer, parser and trace of the other call
                        \* in progress, NoCall when there is none
    parse_errors,       \* ParsingTrace.parse_errors
    end_time,           \* ParsingTrace.end_time, None until finalize
    trace_calls         \* history: the calls a user of ParsingTrace has made
                        \* on it directly, oldest first

tokvars == <<pos, state, reconsume, current_token, current_attr_name,
             current_attr_value, tokens, iterations, replayed>>

treevars == <<nodes, open_elements, idx, node_token>>

sandboxvars == <<caller, worker, queue, pipe, result, is_alive, join_saw>>

callvars == <<html, written, pending, returned, running, parked>>

auditvars == <<violations, audit_result, audits>>

fuzzvars == <<wild_html, fuzz_stack, step, complexity>>

tracevars == <<parse_errors, end_time, trace_calls>>

toolvars == <<tool, fuzzvars, tracevars>>

vars == <<callvars, pc, tokvars, events, treevars, sandboxvars, auditvars,
          toolvars>>

\* ParsingTrace.add_event without the timestamp
add_event(ev, event_type, details) ==
    Append(ev, [type |-> event_type, details |-> details])

\* no message
NoMessage == [success |-> None]

\* no audit has returned
NoAudit == [status |-> None]

\* no verifier or selector has been called
NoTool == [op |-> None]

\* no second parse call is in progress
NoCall == [id |-> 0]

\* ParsingTrace() just constructed, no call made on it by its user
NewTrace ==
    /\ parse_errors = <<>>
    /\ end_time = None
    /\ trace_calls = <<>>

\* generate_wild_html is not running
NoFuzz ==
    /\ wild_html = <<>>
    /\ fuzz_stack = <<>>
    /\ step = 0
    /\ complexity = 0

\* HTMLTokenizer() and HTMLParser() just constructed, parse(html) about to run
ParseInit ==
    /\ pc = "start"
    /\ pos = 0
    /\ state = DATA
    /\ reconsume = FALSE
    /\ current_token = NoToken
    /\ current_attr_name = ""
    /\ current_attr_value = ""
    /\ tokens = <<>>
    /\ events = <<>>
    /\ nodes = <<>>
    /\ open_elements = <<>>
    /\ idx = 0
    /\ node_token = <<>>
    /\ iterations = 0
    /\ replayed = FALSE
    /\ queue = NoMessage
    /\ pipe = NoMessage
    /\ result = NoMessage
    /\ is_alive = None
    /\ join_saw = None
    /\ violations = <<>>
    /\ audit_result = NoAudit
    /\ audits = 0
    /\ tool = NoTool
    /\ NewTrace
    /\ running = 0
    /\ parked = NoCall
    /\ NoFuzz

\* one call, of a text that is not described tag by tag
SingleCall == written = NoTag /\ pending = <<>> /\ returned = <<>>

\* parse(html) called directly
Init ==
    /\ html \in Inputs
    /\ SingleCall
    /\ ParseInit
    /\ caller = "parse"
    /\ worker = "none"

\* tokenize(html) called directly
InitTokenize ==
    /\ html \in CharInputs(MaxLen) \cup FixedInputs
    /\ SingleCall
    /\ ParseInit
    /\ caller = "tokenize"
    /\ worker = "none"

(***************************************************************************)
(* Two parse calls of the same markup, the tag names of the first written  *)
(* in any letter case and those of the second in lower case, as in         *)
(* test_mixed_case_tags.  A fragment is a pair: as written, in lower case. *)
(***************************************************************************)
\* longest markup assembled from the fragments of CasePieces
MaxCasePieces == 3

\* <p> <P> <h1> <H1> <b> <B> </p> </P> x
CasePieces ==
    { <<(<<"<", "p", ">">>), (<<"<", "p", ">">>)>>,
      <<(<<"<", "P", ">">>), (<<"<", "p", ">">>)>>,
      <<(<<"<", "h", "1", ">">>), (<<"<", "h", "1", ">">>)>>,
      <<(<<"<", "H", "1", ">">>), (<<"<", "h", "1", ">">>)>>,
      <<(<<"<", "b", ">">>), (<<"<", "b", ">">>)>>,
      <<(<<"<", "B", ">">>), (<<"<", "b", ">">>)>>,
      <<(<<"<", "/", "p", ">">>), (<<"<", "/", "p", ">">>)>>,
      <<(<<"<", "/", "P", ">">>), (<<"<", "/", "p", ">">>)>>,
      <<(<<"x">>), (<<"x">>)>> }

RECURSIVE CaseInputs(_)
CaseInputs(n) ==
    IF n = 0 THEN {<< <<>>, <<>> >>}
    ELSE LET S == CaseInputs(n - 1)
         IN  S \cup {<<s[1] \o p[1], s[2] \o p[2]>> : s \in S, p \in CasePieces}

\* <I a=1 c='2' d="3"/>   <P a>x</P>   <Br a b=1/>
CaseFixed ==
    { << <<"<", "I", " ", "a", "=", "1", " ", "c", "=", "'", "2", "'", " ",
           "d", "=", "\"", "3", "\"", "/", ">">>,
         <<"<", "i", " ", "a", "=", "1", " ", "c", "=", "'", "2", "'", " ",
           "d", "=", "\"", "3", "\"", "/", ">">> >>,
      << <<"<", "P", " ", "a", ">", "x", "<", "/", "P", ">">>,
         <<"<", "p", " ", "a", ">", "x", "<", "/", "p", ">">> >>,
      << <<"<", "B", "r", " ", "a", " ", "b", "=", "1", "/", ">">>,
         <<"<", "b", "r", " ", "a", " ", "b", "=", "1", "/", ">">> >> }

\* result1 = parse(...); result2 = parse(...)
InitCalls ==
    /\ \E pair \in CaseInputs(MaxCasePieces) \cup CaseFixed :
           /\ html = pair[1]
           /\ pending = <<pair[2]>>
    /\ written = NoTag
    /\ returned = <<>>
    /\ ParseInit
    /\ caller = "parse"
    /\ worker = "none"

(***************************************************************************)
(* Markup with end tags for every element, so that elements can be nested  *)
(* and closed in order.                                                    *)
(***************************************************************************)
\* longest markup assembled from the fragments of NestedPieces
MaxNested == 4

\* <p> </p> <b> </b> <h1> </h1> x
NestedPieces ==
    { <<"<", "p", ">">>,
      <<"<", "/", "p", ">">>,
      <<"<", "b", ">">>,
      <<"<", "/", "b", ">">>,
      <<"<", "h", "1", ">">>,
      <<"<", "/", "h", "1", ">">>,
      <<"x">> }

RECURSIVE NestedInputs(_)
NestedInputs(n) ==
    IF n = 0 THEN {<<>>}
    ELSE LET S == NestedInputs(n - 1)
         IN  S \cup {s \o p : s \in S, p \in NestedPieces}

\* parse(html) called directly on markup with end tags
\* <p>a<b></b>x</p>
ParentTextAroundChild ==
    <<"<", "p", ">", "a", "<", "b", ">", "<", "/", "b", ">", "x",
      "<", "/", "p", ">">>

InitNested ==
    /\ html \in NestedInputs(MaxNested) \cup FixedInputs
                 \cup {ParentTextAroundChild}
    /\ SingleCall
    /\ ParseInit
    /\ caller = "parse"
    /\ worker = "none"

\* tokenize(html) called directly on a tag with attributes
InitAttributes ==
    /\ written \in Written
    /\ html = TagText(written)
    /\ pending = <<>>
    /\ returned = <<>>
    /\ ParseInit
    /\ caller = "tokenize"
    /\ worker = "none"

\* the process that executes parse is the caller's, or the live worker
Executing == worker \in {"none", "running"}

(***************************************************************************)
(* HTMLTokenizer.tokenize: one action per branch of the scan loop.         *)
(***************************************************************************)
TokenizeStart ==
    /\ Executing /\ pc = "start"
    /\ pc' = "tokenize"
    /\ pos' = 0
    /\ tokens' = <<>>
    /\ events' = add_event(events, "tokenization_start",
                           [html_length |-> Len(html)])
    /\ UNCHANGED <<callvars, auditvars, toolvars, sandboxvars, state, reconsume, current_token, current_attr_name,
                   current_attr_value, iterations, replayed, treevars>>

\* the loop condition, and char = html[pos] or None
InLoop == Executing /\ pc = "tokenize" /\ (pos < Len(html) \/ reconsume)

char == IF pos < Len(html) THEN html[pos + 1] ELSE None

\* faulty variant of EndIteration: the position advances in every iteration
EndIteration_Advancing(flag) ==
    /\ reconsume' = FALSE
    /\ pos' = pos + 1
    /\ iterations' = iterations + 1
    /\ replayed' = flag

\* the end of an iteration: clear the reconsume flag or advance
EndIteration(flag) ==
    /\ reconsume' = FALSE
    /\ pos' = IF flag THEN pos ELSE pos + 1
    /\ iterations' = iterations + 1
    /\ replayed' = flag

\* faulty variant of EmittedToken: the flag stays as the tag was written
EmittedToken_AsWritten(tok) == tok

\* _emit_token: what is appended to tokens, and the trace afterwards
EmittedToken(tok) ==
    IF tok.name \in VOID_ELEMENTS THEN [tok EXCEPT !.self_closing = TRUE]
    ELSE tok

emit_tokens(toks, tok) ==
    IF tok # NoToken THEN Append(toks, EmittedToken(tok)) ELSE toks

emit_events(ev, tok) ==
    IF tok # NoToken THEN add_event(ev, "tag_emitted", [name |-> tok.name])
    ELSE ev

\* faulty variant of finalize_token: the name is recorded without its value
finalize_token_NoValue(tok, name, value) ==
    IF tok # NoToken /\ name # ""
    THEN [tok EXCEPT !.attributes = SetItem(@, name, "")]
    ELSE tok

\* _finalize_attr: the token and the trace afterwards
finalize_token(tok, name, value) ==
    IF tok # NoToken /\ name # ""
    THEN [tok EXCEPT !.attributes = SetItem(@, name, value)]
    ELSE tok

finalize_events(ev, tok, name, value) ==
    IF tok # NoToken /\ name # ""
    THEN add_event(ev, "attr_parsed", [name |-> name, value |-> value])
    ELSE ev

DataState ==
    /\ InLoop /\ state = DATA
    /\ IF char = "<"
       THEN /\ state' = TAG_OPEN
            /\ EndIteration(reconsume)
            /\ UNCHANGED <<pc, tokens>>
       ELSE IF char = None
       THEN \* break
            /\ pc' = "break"
            /\ iterations' = iterations + 1
            /\ UNCHANGED <<state, reconsume, pos, tokens, replayed>>
       ELSE /\ tokens' = Append(tokens, Token(CHARACTER, None, char))
            /\ EndIteration(reconsume)
            /\ UNCHANGED <<pc, state>>
    /\ UNCHANGED <<callvars, auditvars, toolvars, sandboxvars, current_token, current_attr_name,
                   current_attr_value, events, treevars>>

TagOpenState ==
    /\ InLoop /\ state = TAG_OPEN
    /\ IF char = "/"
       THEN /\ state' = END_TAG_OPEN
            /\ EndIteration(reconsume)
            /\ UNCHANGED current_token
       ELSE IF char # None /\ isalpha(char)
       THEN /\ current_token' = Token(START_TAG, lower(char), None)
            /\ state' = TAG_NAME
            /\ EndIteration(reconsume)
       ELSE /\ state' = DATA
            /\ EndIteration(TRUE)
            /\ UNCHANGED current_token
    /\ UNCHANGED <<callvars, auditvars, toolvars, sandboxvars, pc, current_attr_name, current_attr_value, tokens,
                   events, treevars>>

EndTagOpenState ==
    /\ InLoop /\ state = END_TAG_OPEN
    /\ IF char # None /\ isalpha(char)
       THEN /\ current_token' = Token(END_TAG, lower(char), None)
            /\ state' = TAG_NAME
       ELSE /\ state' = DATA
            /\ UNCHANGED current_token
    /\ EndIteration(reconsume)
    /\ UNCHANGED <<callvars, auditvars, toolvars, sandboxvars, pc, current_attr_name, current_attr_value, tokens,
                   events, treevars>>

TagNameState ==
    /\ InLoop /\ state = TAG_NAME
    /\ IF char = None \/ char = ">"
       THEN /\ tokens' = emit_tokens(tokens, current_token)
            /\ events' = emit_events(events, current_token)
            /\ current_token' = NoToken
            /\ state' = DATA
       ELSE IF isspace(char)
       THEN /\ state' = BEFORE_ATTR_NAME
            /\ UNCHANGED <<tokens, events, current_token>>
       ELSE IF char = "/"
       THEN /\ state' = SELF_CLOSING
            /\ UNCHANGED <<tokens, events, current_token>>
       ELSE /\ current_token' =
                  IF current_token # NoToken
                  THEN [current_token EXCEPT !.name = @ \o lower(char)]
                  ELSE current_token
            /\ UNCHANGED <<tokens, events, state>>
    /\ EndIteration(reconsume)
    /\ UNCHANGED <<callvars, auditvars, toolvars, sandboxvars, pc, current_attr_name, current_attr_value, treevars>>

BeforeAttrNameState ==
    /\ InLoop /\ state = BEFORE_ATTR_NAME
    /\ IF char = None \/ char = ">"
       THEN /\ tokens' = emit_tokens(tokens, current_token)
            /\ events' = emit_events(events, current_token)
            /\ current_token' = NoToken
            /\ state' = DATA
            /\ UNCHANGED current_attr_name
       ELSE IF char = "/"
       THEN /\ state' = SELF_CLOSING
            /\ UNCHANGED <<tokens, events, current_token, current_attr_name>>
       ELSE IF ~isspace(char)
       THEN /\ current_attr_name' = lower(char)
            /\ state' = ATTR_NAME
            /\ UNCHANGED <<tokens, events, current_token>>
       ELSE UNCHANGED <<tokens, events, current_token, current_attr_name,
                        state>>
    /\ EndIteration(reconsume)
    /\ UNCHANGED <<callvars, auditvars, toolvars, sandboxvars, pc, current_attr_value, treevars>>

\* faulty variant of boolean_attr: a name without '=' is not recorded
boolean_attr_Skipped(tok, name) == tok

\* the boolean attribute recorded when an attribute name ends without '='
boolean_attr(tok, name) ==
    IF tok # NoToken /\ name # ""
    THEN [tok EXCEPT !.attributes = SetItem(@, name, "")]
    ELSE tok

AttrNameState ==
    /\ InLoop /\ state = ATTR_NAME
    /\ IF char = None
       THEN \* None.isspace() raises AttributeError
            /\ current_token' = boolean_attr(current_token, current_attr_name)
            /\ pc' = "AttributeError"
            /\ iterations' = iterations + 1
            /\ UNCHANGED <<state, current_attr_name, reconsume, pos, replayed>>
       ELSE IF char = ">" \/ char = "/" \/ isspace(char)
       THEN /\ current_token' = boolean_attr(current_token, current_attr_name)
            /\ state' = IF isspace(char) \/ char \in {">", "/"}
                        THEN BEFORE_ATTR_NAME ELSE state
            /\ EndIteration(TRUE)
            /\ UNCHANGED <<pc, current_attr_name>>
       ELSE IF char = "="
       THEN /\ state' = BEFORE_ATTR_VALUE
            /\ EndIteration(reconsume)
            /\ UNCHANGED <<pc, current_token, current_attr_name>>
       ELSE /\ current_attr_name' = current_attr_name \o lower(char)
            /\ EndIteration(reconsume)
            /\ UNCHANGED <<pc, current_token, state>>
    /\ UNCHANGED <<callvars, auditvars, toolvars, sandboxvars, current_attr_value, tokens, events, treevars>>

BeforeAttrValueState ==
    /\ InLoop /\ state = BEFORE_ATTR_VALUE
    /\ IF char = "\""
       THEN /\ state' = ATTR_VALUE_DQ
            /\ current_attr_value' = ""
            /\ UNCHANGED <<tokens, events, current_token>>
       ELSE IF char = "'"
       THEN /\ state' = ATTR_VALUE_SQ
            /\ current_attr_value' = ""
            /\ UNCHANGED <<tokens, events, current_token>>
       ELSE IF char = None \/ char = ">"
       THEN /\ tokens' = emit_tokens(tokens, current_token)
            /\ events' = emit_events(events, current_token)
            /\ current_token' = NoToken
            /\ state' = DATA
            /\ UNCHANGED current_attr_value
       ELSE IF ~isspace(char)
       THEN /\ state' = ATTR_VALUE_UQ
            /\ current_attr_value' = char
            /\ UNCHANGED <<tokens, events, current_token>>
       ELSE UNCHANGED <<tokens, events, current_token, current_attr_value,
                        state>>
    /\ EndIteration(reconsume)
    /\ UNCHANGED <<callvars, auditvars, toolvars, sandboxvars, pc, current_attr_name, treevars>>

\* faulty variant of QuotedValue: the characters of the value are
\* lower-cased like those of a name
QuotedValue_Lowered(quote) ==
    /\ IF char = quote \/ char = None
       THEN /\ current_token' = finalize_token(current_token,
                                    current_attr_name, current_attr_value)
            /\ events' = finalize_events(events, current_token,
                                    current_attr_name, current_attr_value)
            /\ current_attr_name' = ""
            /\ current_attr_value' = ""
            /\ state' = IF char = quote THEN BEFORE_ATTR_NAME ELSE DATA
       ELSE /\ current_attr_value' = current_attr_value \o lower(char)
            /\ UNCHANGED <<current_token, events, current_attr_name, state>>
    /\ EndIteration(reconsume)
    /\ UNCHANGED <<callvars, auditvars, toolvars, sandboxvars, pc, tokens, treevars>>

\* ATTR_VALUE_DQ and ATTR_VALUE_SQ differ in the closing quote only
QuotedValue(quote) ==
    /\ IF char = quote \/ char = None
       THEN /\ current_token' = finalize_token(current_token,
                                    current_attr_name, current_attr_value)
            /\ events' = finalize_events(events, current_token,
                                    current_attr_name, current_attr_value)
            /\ current_attr_name' = ""
            /\ current_attr_value' = ""
            /\ state' = IF char = quote THEN BEFORE_ATTR_NAME ELSE DATA
       ELSE /\ current_attr_value' = current_attr_value \o char
            /\ UNCHANGED <<current_token, events, current_attr_name, state>>
    /\ EndIteration(reconsume)
    /\ UNCHANGED <<callvars, auditvars, toolvars, sandboxvars, pc, tokens, treevars>>

AttrValueDQState ==
    /\ InLoop /\ state = ATTR_VALUE_DQ
    /\ QuotedValue("\"")

AttrValueSQState ==
    /\ InLoop /\ state = ATTR_VALUE_SQ
    /\ QuotedValue("'")

AttrValueUQState ==
    /\ InLoop /\ state = ATTR_VALUE_UQ
    /\ IF char = None \/ isspace(char) \/ char = ">"
       THEN /\ current_token' = finalize_token(current_token,
                                    current_attr_name, current_attr_value)
            /\ events' = finalize_events(events, current_token,
                                    current_attr_name, current_attr_value)
            /\ current_attr_name' = ""
            /\ current_attr_value' = ""
            /\ state' = BEFORE_ATTR_NAME
            /\ EndIteration(TRUE)
       ELSE /\ current_attr_value' = current_attr_value \o char
            /\ EndIteration(reconsume)
            /\ UNCHANGED <<current_token, events, current_attr_name, state>>
    /\ UNCHANGED <<callvars, auditvars, toolvars, sandboxvars, pc, tokens, treevars>>

\* faulty variant of SelfClosingState: the character that is not '>' is
\* replayed in ATTR_NAME instead of BEFORE_ATTR_NAME
SelfClosingState_ToAttrName ==
    /\ InLoop /\ state = SELF_CLOSING
    /\ IF char = ">"
       THEN LET tok == IF current_token # NoToken
                       THEN [current_token EXCEPT !.self_closing = TRUE]
                       ELSE current_token
            IN  /\ tokens' = emit_tokens(tokens, tok)
                /\ events' = emit_events(events, tok)
                /\ current_token' = NoToken
                /\ state' = DATA
                /\ EndIteration(reconsume)
       ELSE /\ state' = ATTR_NAME
            /\ EndIteration(TRUE)
            /\ UNCHANGED <<tokens, events, current_token>>
    /\ UNCHANGED <<callvars, auditvars, toolvars, sandboxvars, pc, current_attr_name,
                   current_attr_value, treevars>>

SelfClosingState ==
    /\ InLoop /\ state = SELF_CLOSING
    /\ IF char = ">"
       THEN LET tok == IF current_token # NoToken
                       THEN [current_token EXCEPT !.self_closing = TRUE]
                       ELSE current_token
            IN  /\ tokens' = emit_tokens(tokens, tok)
                /\ events' = emit_events(events, tok)
                /\ current_token' = NoToken
                /\ state' = DATA
                /\ EndIteration(reconsume)
       ELSE /\ state' = BEFORE_ATTR_NAME
            /\ EndIteration(TRUE)
            /\ UNCHANGED <<tokens, events, current_token>>
    /\ UNCHANGED <<callvars, auditvars, toolvars, sandboxvars, pc, current_attr_name, current_attr_value, treevars>>

\* faulty variant of TokenizeReturn: EOF is appended only when the scan
\* ended in the DATA state
TokenizeReturn_EOFOnlyInData ==
    /\ Executing
    /\ \/ pc = "tokenize" /\ ~(pos < Len(html) \/ reconsume)
       \/ pc = "break"
    /\ tokens' = IF state = DATA THEN Append(tokens, Token(EOF, None, None))
                 ELSE tokens
    /\ pc' = "tokenized"
    /\ UNCHANGED <<callvars, auditvars, toolvars, sandboxvars, pos, state, reconsume, current_token,
                   current_attr_name, current_attr_value, iterations,
                   replayed, events, treevars>>

\* the loop is left: tokens.append(Token(EOF)); return tokens
TokenizeReturn ==
    /\ Executing
    /\ \/ pc = "tokenize" /\ ~(pos < Len(html) \/ reconsume)
       \/ pc = "break"
    /\ tokens' = Append(tokens, Token(EOF, None, None))
    /\ pc' = "tokenized"
    /\ UNCHANGED <<callvars, auditvars, toolvars, sandboxvars, pos, state, reconsume, current_token,
                   current_attr_name, current_attr_value, iterations,
                   replayed, events, treevars>>

(***************************************************************************)
(* HTMLParser: the tree builder.                                           *)
(***************************************************************************)
\* TreeNode(name, attributes=...) with the dataclass defaults
TreeNode(name, attributes) ==
    [name |-> name, attributes |-> attributes, children |-> <<>>,
     text_content |-> "", parent |-> 0]

\* faulty variant of add_child: the child is put before its siblings
add_child_First(ns, parent, child) ==
    [ns EXCEPT ![child].parent = parent,
               ![parent].children = <<child>> \o @]

\* TreeNode.add_child: nodes after parent.add_child(child)
add_child(ns, parent, child) ==
    [ns EXCEPT ![child].parent = parent,
               ![parent].children = Append(@, child)]

RemoveAt(s, i) == SubSeq(s, 1, i - 1) \o SubSeq(s, i + 1, Len(s))

SetMax(S) == CHOOSE m \in S : \A n \in S : n <= m

\* the positions of the stack whose element is named tag_name
Matching(ns, stack, tag_name) ==
    {i \in 1..Len(stack) : ns[stack[i]].name = tag_name}

\* HTMLParser._is_open
_is_open(ns, stack, tag_name) == Matching(ns, stack, tag_name) # {}

SetMin(S) == CHOOSE m \in S : \A n \in S : m <= n

\* faulty variant of _close_element: the scan runs from the bottom up
_close_element_FromBottom(ns, stack, tag_name) ==
    IF tag_name = "" \/ tag_name = None THEN stack
    ELSE IF Matching(ns, stack, tag_name) = {} THEN stack
    ELSE RemoveAt(stack, SetMin(Matching(ns, stack, tag_name)))

\* HTMLParser._close_element: the stack afterwards
_close_element(ns, stack, tag_name) ==
    IF tag_name = "" \/ tag_name = None THEN stack
    ELSE IF Matching(ns, stack, tag_name) = {} THEN stack
    ELSE RemoveAt(stack, SetMax(Matching(ns, stack, tag_name)))

\* tokenizer.tokenize has returned: parsing_start, the root, the stack
StartBuild ==
    /\ Executing /\ pc = "tokenized"
    /\ events' = add_event(events, "parsing_start",
                           [token_count |-> Len(tokens)])
    /\ nodes' = <<TreeNode("html", EmptyDict)>>
    /\ node_token' = <<0>>
    /\ open_elements' = <<1>>
    /\ idx' = 0
    /\ pc' = "build"
    /\ UNCHANGED <<callvars, auditvars, toolvars, sandboxvars, tokvars>>

\* the token the loop "for token in tokens" takes next
InTokenLoop == Executing /\ pc = "build" /\ idx < Len(tokens)

token == tokens[idx + 1]

\* faulty variant of ImplicitClosure: only a p on top of the stack counts
ImplicitClosure_TopOnly(ns, stack, tag_name) ==
    /\ tag_name \in SPECIAL_END_TAGS
    /\ stack # <<>> /\ ns[stack[Len(stack)]].name = "p"

\* the implicit <p> closure test of _process_start_tag
ImplicitClosure(ns, stack, tag_name) ==
    tag_name \in SPECIAL_END_TAGS /\ _is_open(ns, stack, "p")

\* the stack the new node is attached to
StackBeforeInsert(ns, stack, tag_name) ==
    IF ImplicitClosure(ns, stack, tag_name)
    THEN _close_element(ns, stack, "p")
    ELSE stack

\* faulty variant of Pushed: every new node is pushed
Pushed_Always(tok) == TRUE

\* whether the new node is pushed
Pushed(tok) == ~tok.self_closing

ProcessStartTag ==
    /\ InTokenLoop /\ token.type = START_TAG
    /\ LET tag_name == token.name
           stack == StackBeforeInsert(nodes, open_elements, tag_name)
           new_node == Len(nodes) + 1
           created == Append(nodes, TreeNode(tag_name, token.attributes))
           ev == IF ImplicitClosure(nodes, open_elements, tag_name)
                 THEN add_event(events, "implicit_p_closed",
                                [before_tag |-> tag_name])
                 ELSE events
       IN  /\ nodes' = IF stack # <<>>
                       THEN add_child(created, stack[Len(stack)], new_node)
                       ELSE created
           /\ node_token' = Append(node_token, idx + 1)
           /\ open_elements' = IF Pushed(token) THEN Append(stack, new_node)
                               ELSE stack
           /\ events' = add_event(ev, "start_tag_processed",
                           [tag |-> tag_name, attributes |-> token.attributes,
                            self_closing |-> token.self_closing])
    /\ idx' = idx + 1
    /\ UNCHANGED <<callvars, auditvars, toolvars, sandboxvars, pc, tokvars>>

ProcessEndTag ==
    /\ InTokenLoop /\ token.type = END_TAG
    /\ open_elements' = _close_element(nodes, open_elements, token.name)
    /\ events' = add_event(events, "end_tag_processed", [tag |-> token.name])
    /\ idx' = idx + 1
    /\ UNCHANGED <<callvars, auditvars, toolvars, sandboxvars, pc, tokvars, nodes, node_token>>

\* faulty variant of added_text: the data is put in front
added_text_InFront(text_content, data) == data \o text_content

\* current.text_content += token.data
added_text(text_content, data) == text_content \o data

ProcessCharacter ==
    /\ InTokenLoop /\ token.type = CHARACTER
    /\ IF open_elements # <<>> /\ token.data # "" /\ token.data # None
       THEN /\ nodes' = [nodes EXCEPT
                  ![open_elements[Len(open_elements)]].text_content =
                      added_text(@, token.data)]
            /\ events' = add_event(events, "character_processed",
                                   [char |-> token.data])
       ELSE UNCHANGED <<nodes, events>>
    /\ idx' = idx + 1
    /\ UNCHANGED <<callvars, auditvars, toolvars, sandboxvars, pc, tokvars, open_elements, node_token>>

(***************************************************************************)
(* The end of HTMLParser.parse: _calculate_depth and _count_nodes walk the *)
(* tree by recursion, one interpreter frame per nested call, and the       *)
(* interpreter raises RecursionError when the nesting of calls exceeds its *)
(* recursion limit.  The limit is 1000 in the interpreter; the model       *)
(* scales it to the nesting its bounded inputs reach: a tree of five       *)
(* levels stands for the tree of 333 levels that exhausts the real limit.  *)
(***************************************************************************)
RecursionLimit == 15
\* calls already on the stack when depth(root) starts: the caller, parse,
\* HTMLParser.parse, _calculate_depth
CallerFrames == 4

SeqMax(s) == SetMax({s[i] : i \in 1..Len(s)})

RECURSIVE SeqSum(_)
SeqSum(s) == IF s = <<>> THEN 0 ELSE s[1] + SeqSum(Tail(s))

\* the inner function depth of _calculate_depth
RECURSIVE depth(_, _)
depth(ns, n) ==
    IF ns[n].children = <<>> THEN 1
    ELSE 1 + SeqMax([i \in 1..Len(ns[n].children) |->
                        depth(ns, ns[n].children[i])])

\* the inner function count of _count_nodes
RECURSIVE count(_, _)
count(ns, n) ==
    1 + SeqSum([i \in 1..Len(ns[n].children) |->
                   count(ns, ns[n].children[i])])

\* nested calls while depth(n) runs: depth itself and, for a node with
\* children, max(...), the generator expression and the deepest depth(child)
RECURSIVE depth_frames(_, _)
depth_frames(ns, n) ==
    IF ns[n].children = <<>> THEN 1
    ELSE 3 + SeqMax([i \in 1..Len(ns[n].children) |->
                        depth_frames(ns, ns[n].children[i])])

\* _calculate_depth raises RecursionError
DepthOverflows(ns) == CallerFrames + depth_frames(ns, 1) > RecursionLimit

\* the token loop is left (break at EOF, or the list is exhausted):
\* parsing_complete is recorded and the root returned
ParseComplete ==
    /\ Executing /\ pc = "build"
    /\ idx >= Len(tokens) \/ token.type = EOF
    /\ IF DepthOverflows(nodes)
       THEN /\ pc' = "RecursionError"
            /\ UNCHANGED events
       ELSE /\ pc' = "done"
            /\ events' = add_event(events, "parsing_complete",
                             [tree_depth |-> depth(nodes, 1),
                              node_count |-> count(nodes, 1)])
    /\ UNCHANGED <<callvars, auditvars, toolvars, sandboxvars, tokvars, treevars>>

\* parse has returned and the caller calls parse on its next text: a new
\* HTMLParser, HTMLTokenizer and ParsingTrace
NextCall ==
    /\ caller = "parse" /\ pc = "done" /\ pending # <<>>
    /\ returned' = Append(returned,
                          [html |-> html, tree |-> nodes, events |-> events])
    /\ html' = Head(pending)
    /\ pending' = Tail(pending)
    /\ pc' = "start"
    /\ pos' = 0
    /\ state' = DATA
    /\ reconsume' = FALSE
    /\ current_token' = NoToken
    /\ current_attr_name' = ""
    /\ current_attr_value' = ""
    /\ tokens' = <<>>
    /\ events' = <<>>
    /\ nodes' = <<>>
    /\ open_elements' = <<>>
    /\ idx' = 0
    /\ node_token' = <<>>
    /\ iterations' = 0
    /\ replayed' = FALSE
    /\ UNCHANGED <<written, running, parked, auditvars, toolvars,
                   sandboxvars>>

\* parse has raised
Exceptions == {"RecursionError", "AttributeError"}

Raised == pc \in Exceptions

\* str(e)
ExceptionMessage(e) ==
    IF e = "RecursionError" THEN "maximum recursion depth exceeded"
    ELSE "'NoneType' object has no attribute 'isspace'"

(***************************************************************************)
(* SandboxWrapper: safe_parse runs parse in a worker process and waits for *)
(* its result on a multiprocessing.Queue.  queue.put hands the message to  *)
(* the queue's feeder thread, which pickles it and writes it to the pipe;  *)
(* the worker process exits only after the feeder thread has finished.     *)
(* Nothing reads the pipe before the caller's queue.get, so a message      *)
(* larger than the pipe's buffer keeps the worker alive.  The size of a    *)
(* message is counted in node records and the buffer is scaled with it.    *)
(***************************************************************************)
PipeCapacity == 3
\* calls already on the feeder thread's stack when the message is pickled
FeederFrames == 4

\* TreeNode.serialize
RECURSIVE serialize(_, _)
serialize(ns, n) ==
    [name |-> ns[n].name,
     attributes |-> ns[n].attributes,
     text_content |-> ns[n].text_content,
     children |-> [i \in 1..Len(ns[n].children) |->
                      serialize(ns, ns[n].children[i])]]

\* the two messages of _parse_worker
SuccessMessage(ns) == [success |-> TRUE, tree |-> serialize(ns, 1)]

\* faulty variant of FailureMessage: the exception's type instead of str(e)
FailureMessage_TypeName(e) == [success |-> FALSE, error |-> e]

FailureMessage(e) == [success |-> FALSE, error |-> ExceptionMessage(e)]

\* the two failure records safe_parse builds itself
TimeoutResult == [success |-> FALSE, error |-> "Parsing timed out"]

NoResult == [success |-> FALSE, error |-> "Parser failed to return result"]

\* node records in a serialized tree
RECURSIVE tree_size(_)
tree_size(t) ==
    1 + SeqSum([i \in 1..Len(t.children) |-> tree_size(t.children[i])])

message_size(m) == IF m.success THEN tree_size(m.tree) ELSE 1

\* nested calls of the pickler on a serialized tree: the record and its
\* children list, and for each level below the same again
RECURSIVE pickle_frames(_)
pickle_frames(t) ==
    IF t.children = <<>> THEN 2
    ELSE 4 + SeqMax([i \in 1..Len(t.children) |->
                        pickle_frames(t.children[i])])

\* pickling the message raises RecursionError in the feeder thread
PickleOverflows(m) ==
    m.success /\ FeederFrames + pickle_frames(m.tree) > RecursionLimit

Alive(w) == w \in {"running", "put", "blocked", "flushed"}

\* queue = multiprocessing.Queue(); process = Process(...); process.start()
ProcessStart ==
    /\ caller = "start"
    /\ caller' = "join"
    /\ worker' = "running"
    /\ UNCHANGED <<callvars, auditvars, toolvars, pc, tokvars, events, treevars, queue, pipe, result,
                   is_alive, join_saw>>

\* _parse_worker after parse: queue.put of the result or of the exception
WorkerPut ==
    /\ worker = "running"
    /\ pc = "done" \/ Raised
    /\ queue' = IF Raised THEN FailureMessage(pc) ELSE SuccessMessage(nodes)
    /\ worker' = "put"
    /\ UNCHANGED <<callvars, auditvars, toolvars, pc, tokvars, events, treevars, caller, pipe, result,
                   is_alive, join_saw>>

\* faulty variant of FeederFlush: of a message larger than the buffer, the
\* part that fits (the root record without its children) is delivered
FeederFlush_Truncating ==
    /\ worker = "put"
    /\ worker' = "flushed"
    /\ IF PickleOverflows(queue)
       THEN UNCHANGED pipe
       ELSE IF message_size(queue) <= PipeCapacity
       THEN pipe' = queue
       ELSE pipe' = [queue EXCEPT !.tree.children = <<>>]
    /\ UNCHANGED <<callvars, auditvars, toolvars, pc, tokvars, events,
                   treevars, caller, queue, result, is_alive, join_saw>>

\* the feeder thread: pickle the message and write it to the pipe
FeederFlush ==
    /\ worker = "put"
    /\ IF PickleOverflows(queue)
       THEN \* the message is dropped
            /\ worker' = "flushed"
            /\ UNCHANGED pipe
       ELSE IF message_size(queue) <= PipeCapacity
       THEN /\ pipe' = queue
            /\ worker' = "flushed"
       ELSE \* the write blocks until somebody reads
            /\ worker' = "blocked"
            /\ UNCHANGED pipe
    /\ UNCHANGED <<callvars, auditvars, toolvars, pc, tokvars, events, treevars, caller, queue, result,
                   is_alive, join_saw>>

\* the worker process ends
WorkerExit ==
    /\ worker = "flushed"
    /\ worker' = "exited"
    /\ UNCHANGED <<callvars, auditvars, toolvars, pc, tokvars, events, treevars, caller, queue, pipe,
                   result, is_alive,
                   join_saw>>

\* process.join(timeout) returns: the worker has ended, or the timeout has
\* elapsed, which can happen wherever the worker is
JoinReturns ==
    /\ caller = "join"
    /\ caller' = "is_alive"
    /\ join_saw' = worker
    /\ UNCHANGED <<callvars, auditvars, toolvars, pc, tokvars, events, treevars, worker, queue, pipe,
                   result, is_alive>>

\* if process.is_alive():
CheckAlive ==
    /\ caller = "is_alive"
    /\ is_alive' = Alive(worker)
    /\ caller' = IF Alive(worker) THEN "terminate" ELSE "queue"
    /\ UNCHANGED <<callvars, auditvars, toolvars, pc, tokvars, events, treevars, worker, queue, pipe,
                   result, join_saw>>

\* faulty variant of Terminate: the timeout record is returned without
\* terminating the worker
Terminate_NoKill ==
    /\ caller = "terminate"
    /\ result' = TimeoutResult
    /\ caller' = "returned"
    /\ UNCHANGED <<callvars, auditvars, toolvars, pc, tokvars, events, treevars, worker, queue, pipe,
                   is_alive, join_saw>>

\* process.terminate(); process.join(); return the timeout record
Terminate ==
    /\ caller = "terminate"
    /\ worker' = IF Alive(worker) THEN "terminated" ELSE worker
    /\ result' = TimeoutResult
    /\ caller' = "returned"
    /\ UNCHANGED <<callvars, auditvars, toolvars, pc, tokvars, events, treevars, queue, pipe,
                   is_alive, join_saw>>

\* if queue.empty(): return the failure record; return queue.get()
CheckQueue ==
    /\ caller = "queue"
    /\ result' = IF pipe = NoMessage THEN NoResult ELSE pipe
    /\ pipe' = NoMessage
    /\ caller' = "returned"
    /\ UNCHANGED <<callvars, auditvars, toolvars, pc, tokvars, events, treevars, worker, queue,
                   is_alive, join_saw>>

(***************************************************************************)
(* SemanticComplianceAuditor (src/src/verifiers.py).  The trees it is      *)
(* given are built by hand, as in test_compliance_auditor_invalid: any     *)
(* tree of a few nodes named p, div or b, a p with many div children, and  *)
(* the parent/child pairs of the ul and li rows of the table.              *)
(***************************************************************************)
\* most nodes of a hand-built tree
MaxTreeNodes == 3
\* most div children of the hand-built p
MaxWidth == 12
\* most audit calls on one auditor
MaxAudits == 2

TreeNames == {"p", "div", "b"}

RECURSIVE BuiltTrees(_)
BuiltTrees(n) ==
    IF n = 1 THEN {<<TreeNode(name, EmptyDict)>> : name \in TreeNames}
    ELSE LET S == BuiltTrees(n - 1)
         IN  S \cup UNION {
                 {add_child(Append(t, TreeNode(name, EmptyDict)),
                            parent, Len(t) + 1) :
                      parent \in 1..Len(t), name \in TreeNames} :
                 t \in {u \in S : Len(u) = n - 1}}

RECURSIVE WideTree(_)
WideTree(k) ==
    IF k = 0 THEN <<TreeNode("p", EmptyDict)>>
    ELSE LET t == WideTree(k - 1)
         IN  add_child(Append(t, TreeNode("div", EmptyDict)), 1, Len(t) + 1)

PairTree(parent_name, child_name) ==
    add_child(<<TreeNode(parent_name, EmptyDict),
                TreeNode(child_name, EmptyDict)>>, 1, 2)

PairTrees ==
    {PairTree("ul", "p"), PairTree("ul", "div"), PairTree("ul", "li"),
     PairTree("li", "header"), PairTree("li", "p")}

Trees ==
    BuiltTrees(MaxTreeNodes) \cup {WideTree(k) : k \in 0..MaxWidth}
        \cup PairTrees

INVALID_NESTING ==
    [p |-> <<"div", "p", "blockquote", "header", "footer", "section",
             "article">>,
     ul |-> <<"p", "div">>,
     li |-> <<"header", "footer">>]

\* INVALID_NESTING.get(name, [])
forbidden(name) ==
    IF name \in DOMAIN INVALID_NESTING THEN INVALID_NESTING[name] ELSE <<>>

\* x in list
InList(x, list) == \E i \in 1..Len(list) : list[i] = x

Message(child_name, parent_name) ==
    "Invalid nesting: <" \o child_name \o "> inside <" \o parent_name \o ">"

\* the first loop of _check_node: the violations after the children names
RECURSIVE check_names(_, _, _)
check_names(children_names, parent_name, viol) ==
    IF children_names = <<>> THEN viol
    ELSE check_names(Tail(children_names), parent_name,
             IF InList(Head(children_names), forbidden(parent_name))
             THEN Append(viol, Message(Head(children_names), parent_name))
             ELSE viol)

\* _check_node, and its second loop over the children: the violations after
RECURSIVE _check_node(_, _, _)
RECURSIVE check_children(_, _, _)
check_children(ns, children, viol) ==
    IF children = <<>> THEN viol
    ELSE check_children(ns, Tail(children),
                        _check_node(ns, Head(children), viol))

_check_node(ns, n, viol) ==
    check_children(ns, ns[n].children,
        check_names([i \in 1..Len(ns[n].children) |->
                        ns[ns[n].children[i]].name],
                    ns[n].name, viol))

\* faulty variant of reset_violations: the list of the last audit is kept
reset_violations_Kept(old) == old

\* self.violations = []
reset_violations(old) == <<>>

\* max(a, b)
max(a, b) == IF a >= b THEN a ELSE b

\* faulty variant of audit_record: the score is not clamped at 0
audit_record_Unclamped(v) ==
    LET score == 100 - (Len(v) * 10)
    IN  [score |-> score, violations |-> v,
         status |-> IF score = 100 THEN "PASS" ELSE "FAIL"]

\* the record audit returns for the violations found
audit_record(v) ==
    LET score == max(0, 100 - (Len(v) * 10))
    IN  [score |-> score, violations |-> v,
         status |-> IF score = 100 THEN "PASS" ELSE "FAIL"]

\* auditor.audit(root)
Audit ==
    /\ caller = "audit" /\ pc \in {"built", "audited"}
    /\ audits < MaxAudits
    /\ LET v == _check_node(nodes, 1, reset_violations(violations))
       IN  /\ violations' = v
           /\ audit_result' = audit_record(v)
    /\ returned' = IF audits > 0 THEN Append(returned, audit_result)
                   ELSE returned
    /\ audits' = audits + 1
    /\ pc' = "audited"
    /\ UNCHANGED <<html, written, pending, running, parked, tokvars,
                   events, treevars, sandboxvars, toolvars>>

\* the caller builds another tree for the same auditor
NextTree ==
    /\ caller = "audit" /\ pc = "audited"
    /\ audits < MaxAudits
    /\ nodes' \in Trees
    /\ node_token' = [i \in 1..Len(nodes') |-> 0]
    /\ pc' = "built"
    /\ UNCHANGED <<callvars, auditvars, toolvars, tokvars, events, open_elements, idx,
                   sandboxvars>>

\* auditor = SemanticComplianceAuditor(), and a tree built by hand
InitAudit ==
    /\ nodes \in Trees
    /\ node_token = [i \in 1..Len(nodes) |-> 0]
    /\ pc = "built"
    /\ caller = "audit"
    /\ worker = "none"
    /\ html = <<>>
    /\ SingleCall
    /\ pos = 0
    /\ state = DATA
    /\ reconsume = FALSE
    /\ current_token = NoToken
    /\ current_attr_name = ""
    /\ current_attr_value = ""
    /\ tokens = <<>>
    /\ events = <<>>
    /\ open_elements = <<>>
    /\ idx = 0
    /\ iterations = 0
    /\ replayed = FALSE
    /\ queue = NoMessage
    /\ pipe = NoMessage
    /\ result = NoMessage
    /\ is_alive = None
    /\ join_saw = None
    /\ violations = <<>>
    /\ audit_result = NoAudit
    /\ audits = 0
    /\ tool = NoTool
    /\ NewTrace
    /\ running = 0
    /\ parked = NoCall
    /\ NoFuzz

NextAudit ==
    \/ Audit
    \/ NextTree

SpecAudit == InitAudit /\ [][NextAudit]_vars

(***************************************************************************)
(* The tools that read a finished tree: IntegrityWrapper                   *)
(* (src/src/robustness.py), SelectorAgent and DifferentialOracle           *)
(* (src/src/verifiers.py), TreeNode.serialize.  Their trees are built by   *)
(* hand from a few labelled nodes, with and without an id and text, plus   *)
(* the tree of test_integrity_depth.                                       *)
(***************************************************************************)
\* most nodes of a labelled tree
MaxToolNodes == 3
\* largest limit a caller of IntegrityWrapper supplies
MaxLimit == 3
\* most serialize calls in a row
MaxSerialized == 2

\* a TreeNode with an id attribute (or none) and text, as the builder
\* leaves it
Labelled(name, id, text) ==
    [TreeNode(name, IF id = None THEN EmptyDict
                    ELSE SetItem(EmptyDict, "id", id))
        EXCEPT !.text_content = text]

Labels ==
    {Labelled("div", None, ""), Labelled("p", "x", ""),
     Labelled("div", "x", "t"), Labelled("html", None, ""),
     Labelled("body", None, "t")}

RECURSIVE LabelledTrees(_)
LabelledTrees(n) ==
    IF n = 1 THEN {<<l>> : l \in Labels}
    ELSE LET S == LabelledTrees(n - 1)
         IN  S \cup UNION {
                 {add_child(Append(t, l), parent, Len(t) + 1) :
                      parent \in 1..Len(t), l \in Labels} :
                 t \in {u \in S : Len(u) = n - 1}}

\* the tree parse("<div><div><div></div></div></div>") returns
NestedDivs ==
    LET div == TreeNode("div", EmptyDict)
    IN  add_child(add_child(add_child(
            <<TreeNode("html", EmptyDict), div, div, div>>, 1, 2), 2, 3),
            3, 4)

ToolTrees == LabelledTrees(MaxToolNodes) \cup {NestedDivs}

\* IntegrityWrapper._count_nodes
RECURSIVE _count_nodes(_, _)
_count_nodes(ns, n) ==
    1 + SeqSum([i \in 1..Len(ns[n].children) |->
                   _count_nodes(ns, ns[n].children[i])])

\* IntegrityWrapper._get_depth
RECURSIVE _get_depth(_, _)
_get_depth(ns, n) ==
    IF ns[n].children = <<>> THEN 1
    ELSE 1 + SeqMax([i \in 1..Len(ns[n].children) |->
                        _get_depth(ns, ns[n].children[i])])

NodeCountIssue(node_count, max_nodes) ==
    "Node count (" \o ToString(node_count) \o ") exceeds limit ("
        \o ToString(max_nodes) \o ")"

DepthIssue(max_depth, limit) ==
    "DOM depth (" \o ToString(max_depth) \o ") exceeds limit ("
        \o ToString(limit) \o ")"

\* faulty variant of exceeds: a value at its limit is reported too
exceeds_AtLimit(value, limit) == value >= limit

\* value > limit, the test of both limits in verify
exceeds(value, limit) == value > limit

\* IntegrityWrapper(max_depth, max_nodes).verify(root)
verify(ns, root, max_depth, max_nodes) ==
    LET node_count == _count_nodes(ns, root)
        tree_depth == _get_depth(ns, root)
        issues == (IF exceeds(node_count, max_nodes)
                   THEN <<NodeCountIssue(node_count, max_nodes)>>
                   ELSE <<>>)
                  \o (IF exceeds(tree_depth, max_depth)
                      THEN <<DepthIssue(tree_depth, max_depth)>>
                      ELSE <<>>)
    IN  [valid |-> Len(issues) = 0, node_count |-> node_count,
         max_depth |-> tree_depth, issues |-> issues]

Limits == 0..MaxLimit

\* wrapper = IntegrityWrapper(max_depth, max_nodes); wrapper.verify(root)
Verify ==
    /\ caller = "tools" /\ pc = "built"
    /\ \E max_depth \in Limits, max_nodes \in Limits :
           tool' = [op |-> "verify", tree |-> nodes,
                    max_depth |-> max_depth, max_nodes |-> max_nodes,
                    result |-> verify(nodes, 1, max_depth, max_nodes)]
    /\ UNCHANGED <<callvars, pc, tokvars, events, treevars, sandboxvars,
                   auditvars, fuzzvars, tracevars>>

\* what BeautifulSoup(html, "html.parser") hands back is not computed here:
\* it is one of these trees, whose root is the document object and whose
\* nodes named None are runs of text
Soup(names, parents) ==
    [i \in 1..Len(names) |->
        [name |-> names[i], parent |-> parents[i],
         children |-> SelectSeq([j \in 1..Len(names) |-> j],
                                LAMBDA j : parents[j] = i)]]

DOCUMENT == "[document]"

Soups ==
    {Soup(<<DOCUMENT>>, <<0>>),
     Soup(<<DOCUMENT, None>>, <<0, 1>>),
     Soup(<<DOCUMENT, "div">>, <<0, 1>>),
     Soup(<<DOCUMENT, "p">>, <<0, 1>>),
     Soup(<<DOCUMENT, "html", "p">>, <<0, 1, 2>>),
     Soup(<<DOCUMENT, "html", "body", "div">>, <<0, 1, 2, 3>>),
     Soup(<<DOCUMENT, "div", None>>, <<0, 1, 2>>),
     Soup(<<DOCUMENT, "div", "p">>, <<0, 1, 2>>),
     Soup(<<DOCUMENT, "div", "p">>, <<0, 1, 1>>),
     Soup(<<DOCUMENT, "p", "div">>, <<0, 1, 2>>),
     Soup(<<DOCUMENT, "p", "div">>, <<0, 1, 1>>),
     Soup(<<DOCUMENT, "div", None, "div">>, <<0, 1, 2, 1>>),
     Soup(<<DOCUMENT, "div", "div", "div">>, <<0, 1, 2, 3>>)}

\* tags after tags.extend(l) for each list l of lists, from tags = []
RECURSIVE extended(_)
extended(lists) ==
    IF lists = <<>> THEN <<>> ELSE Head(lists) \o extended(Tail(lists))

\* DifferentialOracle._get_structure_bs4
RECURSIVE _get_structure_bs4(_, _)
_get_structure_bs4(soup, n) ==
    (IF soup[n].name # None
        /\ soup[n].name \notin {DOCUMENT, "html", "body"}
     THEN <<soup[n].name>> ELSE <<>>)
    \o extended([i \in 1..Len(soup[n].children) |->
                   _get_structure_bs4(soup, soup[n].children[i])])

\* faulty variant of _get_structure_our: a name is put after the names
\* of the children
RECURSIVE _get_structure_our_NameLast(_, _)
_get_structure_our_NameLast(ns, n) ==
    extended([i \in 1..Len(ns[n].children) |->
                _get_structure_our_NameLast(ns, ns[n].children[i])])
    \o (IF ns[n].name \notin {"html", "body"} THEN <<ns[n].name>> ELSE <<>>)

\* DifferentialOracle._get_structure_our
RECURSIVE _get_structure_our(_, _)
_get_structure_our(ns, n) ==
    (IF ns[n].name \notin {"html", "body"} THEN <<ns[n].name>> ELSE <<>>)
    \o extended([i \in 1..Len(ns[n].children) |->
                   _get_structure_our(ns, ns[n].children[i])])

\* DifferentialOracle.compare, from the reference tree on
compare(soup, ns) ==
    LET ref_structure == _get_structure_bs4(soup, 1)
        our_structure == _get_structure_our(ns, 1)
        matches == ref_structure = our_structure
    IN  [matches |-> matches,
         ref_tags |-> Len(ref_structure),
         our_tags |-> Len(our_structure),
         details |-> IF matches THEN "Structure matches reference"
                     ELSE "Structural discrepancy detected"]

\* DifferentialOracle.compare(html, target_tree)
Compare ==
    /\ caller = "tools" /\ pc = "built"
    /\ \E soup \in Soups :
           tool' = [op |-> "compare", tree |-> nodes, soup |-> soup,
                    result |-> compare(soup, nodes)]
    /\ UNCHANGED <<callvars, pc, tokvars, events, treevars, sandboxvars,
                   auditvars, fuzzvars, tracevars>>

\* the ids and tag names a caller of SelectorAgent asks for
TargetIds == {"x", "y", ""}

TargetTags == {"div", "p", "html", "span"}

\* dict.get(key), None when the key is absent
Get(d, key) == IF key \in DOMAIN d THEN d[key] ELSE None

\* faulty variant of select_by_id: the children are searched last to first
RECURSIVE select_by_id_Backwards(_, _, _)
select_by_id_Backwards(ns, root, target_id) ==
    IF Get(ns[root].attributes, "id") = target_id THEN root
    ELSE LET found == [i \in 1..Len(ns[root].children) |->
                          select_by_id_Backwards(ns, ns[root].children[i],
                                                 target_id)]
             hits == {i \in 1..Len(found) : found[i] # 0}
         IN  IF hits = {} THEN 0 ELSE found[SetMax(hits)]

\* SelectorAgent.select_by_id: the handle of the node returned, 0 for None
RECURSIVE select_by_id(_, _, _)
select_by_id(ns, root, target_id) ==
    IF Get(ns[root].attributes, "id") = target_id THEN root
    ELSE LET found == [i \in 1..Len(ns[root].children) |->
                          select_by_id(ns, ns[root].children[i], target_id)]
             hits == {i \in 1..Len(found) : found[i] # 0}
         IN  IF hits = {} THEN 0 ELSE found[SetMin(hits)]

\* faulty variant of select_by_tag: a node is listed after its descendants
RECURSIVE select_by_tag_NodeLast(_, _, _)
select_by_tag_NodeLast(ns, root, tag_name) ==
    extended([i \in 1..Len(ns[root].children) |->
                 select_by_tag_NodeLast(ns, ns[root].children[i], tag_name)])
    \o (IF ns[root].name = tag_name THEN <<root>> ELSE <<>>)

\* SelectorAgent.select_by_tag: the handles of the nodes returned
RECURSIVE select_by_tag(_, _, _)
select_by_tag(ns, root, tag_name) ==
    (IF ns[root].name = tag_name THEN <<root>> ELSE <<>>)
    \o extended([i \in 1..Len(ns[root].children) |->
                    select_by_tag(ns, ns[root].children[i], tag_name)])

\* SelectorAgent.select_by_id(root, target_id)
SelectById ==
    /\ caller = "tools" /\ pc = "built"
    /\ \E target_id \in TargetIds :
           tool' = [op |-> "select_by_id", tree |-> nodes,
                    target_id |-> target_id,
                    result |-> select_by_id(nodes, 1, target_id)]
    /\ UNCHANGED <<callvars, pc, tokvars, events, treevars, sandboxvars,
                   auditvars, fuzzvars, tracevars>>

\* SelectorAgent.select_by_tag(root, tag_name)
SelectByTag ==
    /\ caller = "tools" /\ pc = "built"
    /\ \E tag_name \in TargetTags :
           tool' = [op |-> "select_by_tag", tree |-> nodes,
                    tag_name |-> tag_name,
                    result |-> select_by_tag(nodes, 1, tag_name)]
    /\ UNCHANGED <<callvars, pc, tokvars, events, treevars, sandboxvars,
                   auditvars, fuzzvars, tracevars>>

\* faulty variant of Serialize: the children are moved out of the root
Serialize_Moving ==
    /\ caller = "tools" /\ pc = "built"
    /\ tool' = [op |-> "serialize", tree |-> nodes,
                earlier |-> IF tool.op = "serialize"
                            THEN Append(tool.earlier, tool.result)
                            ELSE <<>>,
                result |-> serialize(nodes, 1)]
    /\ nodes' = [nodes EXCEPT ![1].children = <<>>]
    /\ UNCHANGED <<callvars, pc, tokvars, events, open_elements, idx,
                   node_token, sandboxvars, auditvars, fuzzvars, tracevars>>

\* root.serialize(); earlier holds what the calls just before it, on the
\* same tree, returned
Serialize ==
    /\ caller = "tools" /\ pc = "built"
    /\ tool.op = "serialize" => Len(tool.earlier) < MaxSerialized - 1
    /\ tool' = [op |-> "serialize", tree |-> nodes,
                earlier |-> IF tool.op = "serialize"
                            THEN Append(tool.earlier, tool.result)
                            ELSE <<>>,
                result |-> serialize(nodes, 1)]
    /\ UNCHANGED <<callvars, pc, tokvars, events, treevars, sandboxvars,
                   auditvars, fuzzvars, tracevars>>

\* a tree built by hand, and no tool called yet
InitTools ==
    /\ nodes \in ToolTrees
    /\ node_token = [i \in 1..Len(nodes) |-> 0]
    /\ pc = "built"
    /\ caller = "tools"
    /\ worker = "none"
    /\ html = <<>>
    /\ SingleCall
    /\ pos = 0
    /\ state = DATA
    /\ reconsume = FALSE
    /\ current_token = NoToken
    /\ current_attr_name = ""
    /\ current_attr_value = ""
    /\ tokens = <<>>
    /\ events = <<>>
    /\ open_elements = <<>>
    /\ idx = 0
    /\ iterations = 0
    /\ replayed = FALSE
    /\ queue = NoMessage
    /\ pipe = NoMessage
    /\ result = NoMessage
    /\ is_alive = None
    /\ join_saw = None
    /\ violations = <<>>
    /\ audit_result = NoAudit
    /\ audits = 0
    /\ tool = NoTool
    /\ NewTrace
    /\ running = 0
    /\ parked = NoCall
    /\ NoFuzz

NextTools ==
    \/ Verify
    \/ Compare
    \/ SelectById
    \/ SelectByTag
    \/ Serialize

SpecTools == InitTools /\ [][NextTools]_vars

(***************************************************************************)
(* SecurityFuzzer.generate_wild_html (src/src/verifiers.py).  Every random *)
(* choice is a choice of the step; the five random letters of an id are    *)
(* one of two samples.  The text is kept piece by piece, one piece per     *)
(* tag or run of text.                                                     *)
(***************************************************************************)
\* largest complexity a caller passes
MaxComplexity == 3

tags == <<"div", "p", "span", "b", "i", "ul", "li">>

FuzzActions == {"open", "close", "text", "attr"}

\* "".join(random.choices("abc", k=5)), two of the possible results
FuzzIds == {"aaaaa", "abcab"}

OpenTag(tag) == "<" \o tag \o ">"

CloseTag(tag) == "</" \o tag \o ">"

AttrOpenTag(id) == "<div id=\"" \o id \o "\" class=\"test\">"

\* the pieces of the text the attr action appends
AttrPieces(id) == <<AttrOpenTag(id), "content", CloseTag("div")>>

\* faulty variant of pop: the oldest name is taken
pop_Oldest(s) == [tag |-> s[1], rest |-> Tail(s)]

\* stack.pop(): the name taken and the stack left
pop(s) == [tag |-> s[Len(s)], rest |-> SubSeq(s, 1, Len(s) - 1)]

\* one iteration of the loop over range(complexity)
FuzzStep ==
    /\ caller = "fuzzer" /\ pc = "fuzz"
    /\ step < complexity
    /\ \E action \in FuzzActions :
           CASE action = "open" ->
                    \E i \in 1..Len(tags) :
                        /\ wild_html' = Append(wild_html, OpenTag(tags[i]))
                        /\ fuzz_stack' = Append(fuzz_stack, tags[i])
             [] action = "close" /\ fuzz_stack # <<>> ->
                    /\ wild_html' =
                           Append(wild_html, CloseTag(pop(fuzz_stack).tag))
                    /\ fuzz_stack' = pop(fuzz_stack).rest
             [] action = "text" ->
                    /\ wild_html' = Append(wild_html, " fuzzy_data ")
                    /\ UNCHANGED fuzz_stack
             [] action = "attr" ->
                    \E id \in FuzzIds :
                        /\ wild_html' = wild_html \o AttrPieces(id)
                        /\ UNCHANGED fuzz_stack
             [] OTHER -> UNCHANGED <<wild_html, fuzz_stack>>
    /\ step' = step + 1
    /\ UNCHANGED <<callvars, pc, tokvars, events, treevars, sandboxvars,
                   auditvars, tool, complexity, tracevars>>

\* one iteration of the loop that closes the remaining tags
FuzzCloseRemaining ==
    /\ caller = "fuzzer" /\ pc = "fuzz"
    /\ step >= complexity
    /\ fuzz_stack # <<>>
    /\ wild_html' = Append(wild_html, CloseTag(pop(fuzz_stack).tag))
    /\ fuzz_stack' = pop(fuzz_stack).rest
    /\ UNCHANGED <<callvars, pc, tokvars, events, treevars, sandboxvars,
                   auditvars, tool, step, complexity,
                   tracevars>>

\* return html
FuzzReturn ==
    /\ caller = "fuzzer" /\ pc = "fuzz"
    /\ step >= complexity
    /\ fuzz_stack = <<>>
    /\ pc' = "returned"
    /\ UNCHANGED <<callvars, tokvars, events, treevars, sandboxvars,
                   auditvars, toolvars>>

\* generate_wild_html(complexity) called, html = "" and stack = []
InitFuzz ==
    /\ complexity \in -1..MaxComplexity
    /\ wild_html = <<>>
    /\ fuzz_stack = <<>>
    /\ step = 0
    /\ tool = NoTool
    /\ NewTrace
    /\ running = 0
    /\ parked = NoCall
    /\ pc = "fuzz"
    /\ caller = "fuzzer"
    /\ worker = "none"
    /\ html = <<>>
    /\ SingleCall
    /\ pos = 0
    /\ state = DATA
    /\ reconsume = FALSE
    /\ current_token = NoToken
    /\ current_attr_name = ""
    /\ current_attr_value = ""
    /\ tokens = <<>>
    /\ events = <<>>
    /\ nodes = <<>>
    /\ open_elements = <<>>
    /\ idx = 0
    /\ node_token = <<>>
    /\ iterations = 0
    /\ replayed = FALSE
    /\ queue = NoMessage
    /\ pipe = NoMessage
    /\ result = NoMessage
    /\ is_alive = None
    /\ join_saw = None
    /\ violations = <<>>
    /\ audit_result = NoAudit
    /\ audits = 0

NextFuzz ==
    \/ FuzzStep
    \/ FuzzCloseRemaining
    \/ FuzzReturn

SpecFuzz == InitFuzz /\ [][NextFuzz]_vars

(***************************************************************************)
(* Specifications: parse called directly, and parse under safe_parse.      *)
(***************************************************************************)
Next ==
    \/ TokenizeStart
    \/ DataState
    \/ TagOpenState
    \/ EndTagOpenState
    \/ TagNameState
    \/ BeforeAttrNameState
    \/ AttrNameState
    \/ BeforeAttrValueState
    \/ AttrValueDQState
    \/ AttrValueSQState
    \/ AttrValueUQState
    \/ SelfClosingState
    \/ TokenizeReturn
    \/ StartBuild
    \/ ProcessStartTag
    \/ ProcessEndTag
    \/ ProcessCharacter
    \/ ParseComplete

Spec == Init /\ [][Next]_vars

SpecNested == InitNested /\ [][Next]_vars

NextCalls ==
    \/ TokenizeStart
    \/ DataState
    \/ TagOpenState
    \/ EndTagOpenState
    \/ TagNameState
    \/ BeforeAttrNameState
    \/ AttrNameState
    \/ BeforeAttrValueState
    \/ AttrValueDQState
    \/ AttrValueSQState
    \/ AttrValueUQState
    \/ SelfClosingState
    \/ TokenizeReturn
    \/ StartBuild
    \/ ProcessStartTag
    \/ ProcessEndTag
    \/ ProcessCharacter
    \/ ParseComplete
    \/ NextCall

SpecCalls == InitCalls /\ [][NextCalls]_vars

(***************************************************************************)
(* Two parse calls in progress at once, as from two threads of one caller. *)
(* parse(html) builds its own HTMLParser, and with it its own ParsingTrace *)
(* and HTMLTokenizer, so each call has its own copy of every variable of   *)
(* the tokenizer, the builder and the trace; the tables VOID_ELEMENTS and  *)
(* SPECIAL_END_TAGS are class attributes that nothing assigns.  The        *)
(* interpreter runs one call at a time and may switch between any two      *)
(* steps.  Each text is parsed alone first, to have what the call returns  *)
(* on its own.                                                             *)
(***************************************************************************)
\* longest markup assembled from the fragments of InterleavedPieces
MaxInterleavedPieces == 2

\* <p> </p> x
InterleavedPieces ==
    { <<"<", "p", ">">>, <<"<", "/", "p", ">">>, <<"x">> }

RECURSIVE InterleavedInputs(_)
InterleavedInputs(n) ==
    IF n = 0 THEN {<<>>}
    ELSE LET S == InterleavedInputs(n - 1)
         IN  S \cup {s \o p : s \in S, p \in InterleavedPieces}

\* <i a=1 c='2' d="3"/>
InterleavedFixed ==
    { <<"<", "i", " ", "a", "=", "1", " ", "c", "=", "'", "2", "'", " ",
        "d", "=", "\"", "3", "\"", "/", ">">> }

\* parse(a); parse(b); then parse(a) and parse(b) at once
InitInterleaved ==
    /\ html \in InterleavedInputs(MaxInterleavedPieces) \cup InterleavedFixed
    /\ \E other \in InterleavedInputs(MaxInterleavedPieces)
                        \cup InterleavedFixed :
           pending = <<other>>
    /\ written = NoTag
    /\ returned = <<>>
    /\ ParseInit
    /\ caller = "parse"
    /\ worker = "none"

\* the objects of a call that has just been made: HTMLParser() and, once
\* parse runs, HTMLTokenizer(self.trace)
NewCall(id, text) ==
    [id |-> id, html |-> text, pc |-> "start", pos |-> 0, state |-> DATA,
     reconsume |-> FALSE, current_token |-> NoToken,
     current_attr_name |-> "", current_attr_value |-> "", tokens |-> <<>>,
     iterations |-> 0, replayed |-> FALSE, events |-> <<>>,
     nodes |-> <<>>, open_elements |-> <<>>, idx |-> 0,
     node_token |-> <<>>]

\* the objects of the call the interpreter is running
RunningCall ==
    [id |-> running, html |-> html, pc |-> pc, pos |-> pos, state |-> state,
     reconsume |-> reconsume, current_token |-> current_token,
     current_attr_name |-> current_attr_name,
     current_attr_value |-> current_attr_value, tokens |-> tokens,
     iterations |-> iterations, replayed |-> replayed, events |-> events,
     nodes |-> nodes, open_elements |-> open_elements, idx |-> idx,
     node_token |-> node_token]

\* the interpreter goes on with the call c, except for the trace
Resume(c) ==
    /\ running' = c.id
    /\ html' = c.html
    /\ pc' = c.pc
    /\ pos' = c.pos
    /\ state' = c.state
    /\ reconsume' = c.reconsume
    /\ current_token' = c.current_token
    /\ current_attr_name' = c.current_attr_name
    /\ current_attr_value' = c.current_attr_value
    /\ tokens' = c.tokens
    /\ iterations' = c.iterations
    /\ replayed' = c.replayed
    /\ nodes' = c.nodes
    /\ open_elements' = c.open_elements
    /\ idx' = c.idx
    /\ node_token' = c.node_token

\* both texts have been parsed alone: the caller now has parse(a) and
\* parse(b) in progress together, the first one running
StartBoth ==
    /\ caller = "parse" /\ pc = "done"
    /\ running = 0 /\ pending = <<>> /\ Len(returned) = 1
    /\ returned' = Append(returned,
                          [html |-> html, tree |-> nodes, events |-> events])
    /\ Resume(NewCall(1, returned[1].html))
    /\ events' = <<>>
    /\ parked' = NewCall(2, html)
    /\ UNCHANGED <<written, pending, auditvars, toolvars, sandboxvars>>

\* faulty variant of Switch: one trace serves both calls
Switch_OneTrace ==
    /\ caller = "parse"
    /\ running # 0
    /\ parked' = RunningCall
    /\ Resume(parked)
    /\ UNCHANGED events
    /\ UNCHANGED <<written, pending, returned, auditvars, toolvars,
                   sandboxvars>>

\* the interpreter leaves the running call where it is and goes on with
\* the other one
Switch ==
    /\ caller = "parse"
    /\ running # 0
    /\ parked' = RunningCall
    /\ Resume(parked)
    /\ events' = parked.events
    /\ UNCHANGED <<written, pending, returned, auditvars, toolvars,
                   sandboxvars>>

NextInterleaved ==
    \/ TokenizeStart
    \/ DataState
    \/ TagOpenState
    \/ EndTagOpenState
    \/ TagNameState
    \/ BeforeAttrNameState
    \/ AttrNameState
    \/ BeforeAttrValueState
    \/ AttrValueDQState
    \/ AttrValueSQState
    \/ AttrValueUQState
    \/ SelfClosingState
    \/ TokenizeReturn
    \/ StartBuild
    \/ ProcessStartTag
    \/ ProcessEndTag
    \/ ProcessCharacter
    \/ ParseComplete
    \/ NextCall
    \/ StartBoth
    \/ Switch

SpecInterleaved == InitInterleaved /\ [][NextInterleaved]_vars

(***************************************************************************)
(* One HTMLTokenizer used for two tokenize calls.  The second text is      *)
(* first given to a tokenizer of its own, to have the tokens a fresh       *)
(* tokenizer returns for it; then t = HTMLTokenizer(), t.tokenize(first),  *)
(* t.tokenize(second).                                                     *)
(***************************************************************************)
\* longest text assembled from the fragments of ReusePieces
MaxReusePieces == 2

\* <p   x   >   and  ' a'
ReusePieces == { <<"<", "p">>, <<"x">>, <<">">>, <<" ", "a">> }

RECURSIVE ReuseInputs(_)
ReuseInputs(n) ==
    IF n = 0 THEN {<<>>}
    ELSE LET S == ReuseInputs(n - 1)
         IN  S \cup {s \o p : s \in S, p \in ReusePieces}

\* <i a=1 c='2' d="3"/>  and the unfinished end tag  </p
ReuseFixed == InterleavedFixed \cup { <<"<", "/", "p">> }

InitReuse ==
    /\ html \in ReuseInputs(MaxReusePieces) \cup ReuseFixed
    /\ \E first \in ReuseInputs(MaxReusePieces) \cup ReuseFixed :
           pending = <<first, html>>
    /\ written = NoTag
    /\ returned = <<>>
    /\ ParseInit
    /\ caller = "tokenize"
    /\ worker = "none"

\* t = HTMLTokenizer(); t.tokenize(first) is called
NewTokenizer ==
    /\ caller = "tokenize" /\ pc = "tokenized"
    /\ Len(returned) = 0 /\ pending # <<>>
    /\ returned' = Append(returned, [html |-> html, tokens |-> tokens])
    /\ html' = Head(pending)
    /\ pending' = Tail(pending)
    /\ pc' = "start"
    /\ pos' = 0
    /\ state' = DATA
    /\ reconsume' = FALSE
    /\ current_token' = NoToken
    /\ current_attr_name' = ""
    /\ current_attr_value' = ""
    /\ tokens' = <<>>
    /\ events' = <<>>
    /\ iterations' = 0
    /\ replayed' = FALSE
    /\ UNCHANGED <<written, running, parked, treevars, auditvars, toolvars,
                   sandboxvars>>

\* t.tokenize(second) is called on the same tokenizer: nothing is assigned
\* between the calls
ReuseTokenizer ==
    /\ caller = "tokenize" /\ pc = "tokenized"
    /\ Len(returned) = 1 /\ pending # <<>>
    /\ returned' = Append(returned, [html |-> html, tokens |-> tokens])
    /\ html' = Head(pending)
    /\ pending' = Tail(pending)
    /\ pc' = "start"
    /\ iterations' = 0
    /\ replayed' = FALSE
    /\ UNCHANGED <<written, running, parked, pos, state, reconsume,
                   current_token, current_attr_name, current_attr_value,
                   tokens, events, treevars, auditvars, toolvars,
                   sandboxvars>>

NextReuse ==
    \/ TokenizeStart
    \/ DataState
    \/ TagOpenState
    \/ EndTagOpenState
    \/ TagNameState
    \/ BeforeAttrNameState
    \/ AttrNameState
    \/ BeforeAttrValueState
    \/ AttrValueDQState
    \/ AttrValueSQState
    \/ AttrValueUQState
    \/ SelfClosingState
    \/ TokenizeReturn
    \/ NewTokenizer
    \/ ReuseTokenizer

SpecReuse == InitReuse /\ [][NextReuse]_vars

(***************************************************************************)
(* parse_with_trace: one ParsingTrace handed first to a tokenizer and then *)
(* to a parser.                                                            *)
(***************************************************************************)
\* parse_with_trace(html) called directly, with a new ParsingTrace
InitTrace ==
    /\ html \in InterleavedInputs(MaxInterleavedPieces) \cup InterleavedFixed
    /\ SingleCall
    /\ ParseInit
    /\ caller = "parse_with_trace"
    /\ worker = "none"

\* tokens = tokenizer.tokenize(html) has returned; parser = HTMLParser(trace)
\* and parser.parse(html) begins, which makes its own HTMLTokenizer on the
\* same trace
TraceTokenized ==
    /\ caller = "parse_with_trace" /\ pc = "tokenized"
    /\ returned = <<>>
    /\ returned' = <<[html |-> html, tokens |-> tokens]>>
    /\ pc' = "start"
    /\ pos' = 0
    /\ state' = DATA
    /\ reconsume' = FALSE
    /\ current_token' = NoToken
    /\ current_attr_name' = ""
    /\ current_attr_value' = ""
    /\ tokens' = <<>>
    /\ iterations' = 0
    /\ replayed' = FALSE
    /\ UNCHANGED <<html, written, pending, running, parked, events, treevars,
                   auditvars, toolvars, sandboxvars>>

\* inside parser.parse: the tokens of its own tokenizer go to the builder
TraceBuild ==
    /\ caller = "parse_with_trace" /\ returned # <<>>
    /\ StartBuild

\* trace.finalize() sets end_time only; the dictionary is returned with the
\* tokens of the first tokenizer and trace.events
TraceReturn ==
    /\ caller = "parse_with_trace" /\ pc = "done"
    /\ pc' = "returned"
    /\ UNCHANGED <<callvars, tokvars, events, treevars, auditvars, toolvars,
                   sandboxvars>>

NextTrace ==
    \/ TokenizeStart
    \/ DataState
    \/ TagOpenState
    \/ EndTagOpenState
    \/ TagNameState
    \/ BeforeAttrNameState
    \/ AttrNameState
    \/ BeforeAttrValueState
    \/ AttrValueDQState
    \/ AttrValueSQState
    \/ AttrValueUQState
    \/ SelfClosingState
    \/ TokenizeReturn
    \/ TraceTokenized
    \/ TraceBuild
    \/ ProcessStartTag
    \/ ProcessEndTag
    \/ ProcessCharacter
    \/ ParseComplete
    \/ TraceReturn

SpecTrace == InitTrace /\ [][NextTrace]_vars

(***************************************************************************)
(* ParsingTrace used on its own: a caller that makes add_event, add_error  *)
(* and finalize calls on one trace.                                        *)
(***************************************************************************)
\* most calls made on the trace
MaxTraceCalls == 4

\* event types and details the caller passes to add_event, messages it
\* passes to add_error, and readings of time.time()
TraceEventTypes == {"tag_emitted", "parse_error"}

TraceDetails == {[message |-> "a"], [message |-> "c"]}

TraceMessages == {"a", "b"}

Times == {"t1", "t2"}

InitTraceLog ==
    /\ html = <<>>
    /\ SingleCall
    /\ ParseInit
    /\ caller = "trace"
    /\ worker = "none"

CallingTrace == caller = "trace" /\ Len(trace_calls) < MaxTraceCalls

\* trace.add_event(event_type, details)
AddEvent ==
    /\ CallingTrace
    /\ \E event_type \in TraceEventTypes, details \in TraceDetails :
           /\ events' = add_event(events, event_type, details)
           /\ trace_calls' = Append(trace_calls,
                                 [op |-> "add_event", arg |-> event_type])
    /\ UNCHANGED <<callvars, pc, tokvars, treevars, sandboxvars, auditvars,
                   tool, fuzzvars, parse_errors, end_time>>

\* faulty variant of logged: the newest message is put first
logged_InFront(errors, error_msg) == <<error_msg>> \o errors

\* self.parse_errors.append(error_msg)
logged(errors, error_msg) == Append(errors, error_msg)

\* trace.add_error(error_msg)
AddError ==
    /\ CallingTrace
    /\ \E error_msg \in TraceMessages :
           /\ parse_errors' = logged(parse_errors, error_msg)
           /\ events' = add_event(events, "parse_error",
                                  [message |-> error_msg])
           /\ trace_calls' = Append(trace_calls,
                                 [op |-> "add_error", arg |-> error_msg])
    /\ UNCHANGED <<callvars, pc, tokvars, treevars, sandboxvars, auditvars,
                   tool, fuzzvars, end_time>>

\* trace.finalize()
Finalize ==
    /\ CallingTrace
    /\ end_time' \in Times
    /\ trace_calls' = Append(trace_calls, [op |-> "finalize", arg |-> None])
    /\ UNCHANGED <<callvars, pc, tokvars, events, treevars, sandboxvars,
                   auditvars, tool, fuzzvars, parse_errors>>

NextTraceLog ==
    \/ AddEvent
    \/ AddError
    \/ Finalize

SpecTraceLog == InitTraceLog /\ [][NextTraceLog]_vars

\* fragments for the sandbox: <p> <b> <br> x
SandboxPieces ==
    { <<"<", "p", ">">>,
      <<"<", "b", ">">>,
      <<"<", "b", "r", ">">>,
      <<"x">> }

RECURSIVE SandboxInputs(_)
SandboxInputs(n) ==
    IF n = 0 THEN {<<>>}
    ELSE LET S == SandboxInputs(n - 1)
         IN  S \cup {s \o p : s \in S, p \in SandboxPieces}

\* safe_parse(html, timeout) called
InitSandbox ==
    /\ html \in SandboxInputs(MaxPieces) \cup FixedInputs
    /\ SingleCall
    /\ ParseInit
    /\ caller = "start"
    /\ worker = "unstarted"

NextSandbox ==
    \/ ProcessStart
    \/ TokenizeStart
    \/ DataState
    \/ TagOpenState
    \/ EndTagOpenState
    \/ TagNameState
    \/ BeforeAttrNameState
    \/ AttrNameState
    \/ BeforeAttrValueState
    \/ AttrValueDQState
    \/ AttrValueSQState
    \/ AttrValueUQState
    \/ SelfClosingState
    \/ TokenizeReturn
    \/ StartBuild
    \/ ProcessStartTag
    \/ ProcessEndTag
    \/ ProcessCharacter
    \/ ParseComplete
    \/ WorkerPut
    \/ FeederFlush
    \/ WorkerExit
    \/ JoinReturns
    \/ CheckAlive
    \/ Terminate
    \/ CheckQueue

SpecSandbox == InitSandbox /\ [][NextSandbox]_vars

NextTokenize ==
    \/ TokenizeStart
    \/ DataState
    \/ TagOpenState
    \/ EndTagOpenState
    \/ TagNameState
    \/ BeforeAttrNameState
    \/ AttrNameState
    \/ BeforeAttrValueState
    \/ AttrValueDQState
    \/ AttrValueSQState
    \/ AttrValueUQState
    \/ SelfClosingState
    \/ TokenizeReturn

SpecTokenize == InitTokenize /\ [][NextTokenize]_vars

\* the scan loop runs without interruption until tokenize returns
FairSpecTokenize == SpecTokenize /\ WF_vars(NextTokenize)

SpecAttributes == InitAttributes /\ [][NextTokenize]_vars

(***************************************************************************)
(* Vocabulary of the properties.                                           *)
(***************************************************************************)
Range(s) == {s[i] : i \in 1..Len(s)}

Handles == 1..Len(nodes)

Children(ns, n) == Range(ns[n].children)

\* the proper descendants of n, following the children lists
RECURSIVE Descendants(_, _)
Descendants(ns, n) ==
    Children(ns, n) \cup UNION {Descendants(ns, c) : c \in Children(ns, n)}

\* tokenize has returned its list
Tokenized == pc \in {"tokenized", "build", "done", "RecursionError"}

EOFPositions == {i \in 1..Len(tokens) : tokens[i].type = EOF}

\* nodes[n] was created for a self-closing start-tag token
FromSelfClosing(n) == node_token[n] # 0 /\ tokens[node_token[n]].self_closing

TypeOK ==
    /\ pc \in {"start", "tokenize", "break", "tokenized", "build", "done"}
              \cup Exceptions
    /\ pos \in 0..Len(html)
    /\ reconsume = FALSE
    /\ Len(node_token) = Len(nodes)

(***************************************************************************)
(* C1  parse(text) returns for every text, without raising, and returns    *)
(* the synthetic root named "html".  Stated as: parse is never left by an  *)
(* exception, and when it has returned the root is named "html".           *)
(* The code contradicts it: _calculate_depth recurses once per tree level  *)
(* and raises RecursionError on deeply nested text.                        *)
(***************************************************************************)
C1_ParseTotal ==
    /\ ~Raised
    /\ pc = "done" => nodes[1].name = "html"

(***************************************************************************)
(* C2  The list tokenize returns contains exactly one EOF token, and it is *)
(* the last element.                                                       *)
(***************************************************************************)
C2_OneEOFLast ==
    Tokenized => /\ tokens # <<>>
                 /\ EOFPositions = {Len(tokens)}

\* tokenize has returned a list with tag and character tokens before EOF
C2_Witness ==
    /\ pc = "tokenized"
    /\ \E i, j \in 1..Len(tokens) :
          tokens[i].type = START_TAG /\ tokens[j].type = CHARACTER

(***************************************************************************)
(* C3  tokenize terminates and never raises: every iteration of the scan   *)
(* loop either consumes one character or sets the reconsume flag, the      *)
(* iteration after one that set the flag consumes the character, so the    *)
(* loop runs at most 2 * len(text) iterations, and tokenize returns.       *)
(***************************************************************************)
C3_ScanTerminates ==
    /\ [](/\ pc # "AttributeError"
          /\ iterations <= 2 * pos + (IF replayed THEN 1 ELSE 0)
          /\ Tokenized => iterations <= 2 * Len(html))
    /\ [][iterations' # iterations =>
            /\ \/ pos' = pos + 1 /\ ~replayed'
               \/ pos' = pos /\ replayed'
            /\ replayed => pos' = pos + 1]_vars
    /\ <>(pc = "tokenized")

\* tokenize has returned after replaying at least one character
C3_Witness ==
    /\ pc = "tokenized"
    /\ Len(html) >= 3
    /\ iterations > Len(html)

(***************************************************************************)
(* C4  When a start tag of the block set is processed while a p is open,   *)
(* the innermost open p is closed first and the new block node is attached *)
(* outside that p: the node is not a descendant of the p that was closed.  *)
(* The code contradicts it: only the p itself is taken off the stack, so   *)
(* the block node is attached to any element that was open inside the p.   *)
(***************************************************************************)
InnermostOpenP == open_elements[SetMax(Matching(nodes, open_elements, "p"))]

C4_BlockOutsideClosedP ==
    [][(/\ InTokenLoop
        /\ token.type = START_TAG
        /\ ImplicitClosure(nodes, open_elements, token.name))
       => /\ InnermostOpenP \notin Range(open_elements')
          /\ Len(nodes') \notin Descendants(nodes', InnermostOpenP)]_vars

(***************************************************************************)
(* C5  No tree returned by parse contains a p node with an element of the  *)
(* block set as a direct child.                                            *)
(* The code contradicts it: with two p open, a block start tag closes the  *)
(* inner one and the block node becomes a child of the outer one.          *)
(***************************************************************************)
C5_NoBlockChildOfP ==
    pc = "done" =>
        \A n \in Handles : nodes[n].name = "p" =>
            \A c \in Children(nodes, n) : nodes[c].name \notin SPECIAL_END_TAGS

C7_CompletedParseReturned ==
    (/\ caller = "returned"
     /\ pc = "done"
     /\ join_saw \in {"blocked", "exited"})
    => result = SuccessMessage(nodes)

C9_EndTagPopsInnermostMatch ==
    [][(InTokenLoop /\ token.type = END_TAG) =>
         /\ nodes' = nodes
         /\ pc' = "build"
         /\ IF \E i \in 1..Len(open_elements) :
                  nodes[open_elements[i]].name = token.name
            THEN \E i \in 1..Len(open_elements) :
                    /\ nodes[open_elements[i]].name = token.name
                    /\ \A j \in (i + 1)..Len(open_elements) :
                          nodes[open_elements[j]].name # token.name
                    /\ Len(open_elements') = Len(open_elements) - 1
                    /\ \A j \in 1..(i - 1) :
                          open_elements'[j] = open_elements[j]
                    /\ \A j \in i..Len(open_elements') :
                          open_elements'[j] = open_elements[j + 1]
            ELSE open_elements' = open_elements]_vars

\* an end tag has just removed an element that was not the top of the
\* stack: a child of the removed element is still open
C9_Witness ==
    /\ pc = "build"
    /\ idx > 0
    /\ tokens[idx].type = END_TAG
    /\ \E n \in Handles \ Range(open_elements) :
          /\ nodes[n].name = tokens[idx].name
          /\ \E m \in Range(open_elements) : nodes[m].parent = n

(***************************************************************************)
(* C10  No node created for a self-closing start-tag token ("/>" or a void *)
(* element name) is ever on the open-element stack, and such a node has no *)
(* children and empty text, in particular in the tree parse returns.       *)
(***************************************************************************)
C10_SelfClosingNeverOpen ==
    pc \in {"build", "done"} =>
        \A n \in Handles : FromSelfClosing(n) =>
            /\ n \notin Range(open_elements)
            /\ nodes[n].children = <<>>
            /\ nodes[n].text_content = ""

\* parse has returned a tree with a self-closing node that is followed by
\* text and by another element
C10_Witness ==
    /\ pc = "done"
    /\ \E n \in Handles :
          /\ FromSelfClosing(n)
          /\ \E i, j \in (node_token[n] + 1)..Len(tokens) :
                tokens[i].type = CHARACTER /\ tokens[j].type = START_TAG

(***************************************************************************)
(* C11: every tag token in the output of tokenize whose name is in the     *)
(* void-element set has self_closing = true, whether or not the input      *)
(* wrote it with "/>".                                                     *)
(***************************************************************************)
TagTokens == {i \in 1..Len(tokens) : tokens[i].type \in {START_TAG, END_TAG}}

C11_VoidForcedSelfClosing ==
    \A i \in TagTokens :
        tokens[i].name \in VOID_ELEMENTS => tokens[i].self_closing

\* <Br ...> or </Br ...> written without "/>" was emitted as a void tag
C11_Witness ==
    /\ pc = "tokenized"
    /\ written.close = <<">">>
    /\ \E i \in TagTokens :
           /\ tokens[i].name = "br"
           /\ tokens[i].type = END_TAG
           /\ tokens[i].self_closing

(***************************************************************************)
(* C12: tag matching is case-insensitive: changing the letter case of the  *)
(* characters inside tag names does not change the parse result's tree     *)
(* shape or its pre-order sequence of tag names, nor which implicit        *)
(* closures and end-tag matches happen.  Stated on two parse calls, the    *)
(* first of a text whose tag names are written in any case, the second of  *)
(* the same text with the tag names in lower case: when the second has     *)
(* returned, the two trees have the same shape and pre-order names, and    *)
(* the two traces record the same events.                                  *)
(***************************************************************************)
RECURSIVE shape(_, _)
shape(ns, n) ==
    [name |-> ns[n].name,
     children |-> [i \in 1..Len(ns[n].children) |->
                      shape(ns, ns[n].children[i])]]

RECURSIVE Flatten(_)
Flatten(ss) == IF ss = <<>> THEN <<>> ELSE Head(ss) \o Flatten(Tail(ss))

RECURSIVE PreOrder(_, _)
PreOrder(ns, n) ==
    <<ns[n].name>> \o Flatten([i \in 1..Len(ns[n].children) |->
                                  PreOrder(ns, ns[n].children[i])])

C12_CaseInsensitive ==
    (pc = "done" /\ returned # <<>>) =>
        /\ shape(nodes, 1) = shape(returned[1].tree, 1)
        /\ PreOrder(nodes, 1) = PreOrder(returned[1].tree, 1)
        /\ events = returned[1].events

\* the first text was written with upper-case tag names, and a p was
\* closed implicitly in both calls
C12_Witness ==
    /\ pc = "done" /\ returned # <<>>
    /\ returned[1].html # html
    /\ \E i \in 1..Len(events) : events[i].type = "implicit_p_closed"
    /\ Len(PreOrder(nodes, 1)) >= 4

(***************************************************************************)
(* C13: in every token emitted by tokenize, the tag name and every         *)
(* attribute key contain no upper-case letter, while every attribute value *)
(* and every character token's data is exactly the input characters, case  *)
(* unchanged.  A name without upper-case letter is one spelled with the    *)
(* lower-case letters only; a value made of exactly the input characters   *)
(* is the text of a span of html; the character data before the first tag  *)
(* is, token by token, the text before the first tag.                      *)
(***************************************************************************)
\* "".join(s)
RECURSIVE Join(_)
Join(s) == IF s = <<>> THEN "" ELSE Head(s) \o Join(Tail(s))

\* longest name the described tags spell
MaxNameLen == 2

RECURSIVE Spellings(_, _)
Spellings(letters, n) ==
    IF n = 0 THEN {<<>>}
    ELSE LET S == Spellings(letters, n - 1)
         IN  S \cup {Append(w, c) : w \in S, c \in letters}

UpperFreeNames == {Join(w) : w \in Spellings(LowerLetters, MaxNameLen)}

\* str is the text of html[i..j] for some i and j
IsSpanOf(str, text) ==
    \E i \in 1..(Len(text) + 1) :
        /\ i + Len(str) - 1 <= Len(text)
        /\ str = Join(SubSeq(text, i, i + Len(str) - 1))

CharTokens == {i \in 1..Len(tokens) : tokens[i].type = CHARACTER}

C13_NamesLoweredValuesExact ==
    /\ \A i \in TagTokens :
           /\ tokens[i].name \in UpperFreeNames
           /\ \A k \in DOMAIN tokens[i].attributes :
                  /\ k \in UpperFreeNames
                  /\ IsSpanOf(tokens[i].attributes[k], html)
    /\ \A i \in CharTokens :
           (\A j \in 1..i : tokens[j].type = CHARACTER) =>
               tokens[i].data = html[i]

\* <Br A="V"> or the like: an upper-case tag name, attribute name, value
\* and character, all emitted
C13_Witness ==
    /\ pc = "tokenized"
    /\ written.tag = <<"B", "r">>
    /\ Len(written.attrs) = 2
    /\ written.attrs[1].name = <<"A">> /\ written.attrs[1].v = <<"V">>
    /\ \E i \in TagTokens :
           /\ tokens[i].name = "br"
           /\ "a" \in DOMAIN tokens[i].attributes
           /\ tokens[i].attributes["a"] = "V"
    /\ \E i \in CharTokens : tokens[i].data = "X"

(***************************************************************************)
(* C14: for a start tag terminated by '>' whose attributes are written     *)
(* name="v", name='v' or name=v (v without whitespace, quotes or '>'), the *)
(* emitted token's attribute map contains each lower-cased name mapped to  *)
(* exactly v, for all three quoting styles and any number of attributes.   *)
(***************************************************************************)
\* str.lower() of a name
RECURSIVE JoinLower(_)
JoinLower(s) == IF s = <<>> THEN "" ELSE lower(Head(s)) \o JoinLower(Tail(s))

\* the described tag is a start tag closed by '>' and every attribute is
\* written with a value
ValuedStartTag ==
    /\ written.open = <<"<">>
    /\ written.close = <<">">>
    /\ \A i \in 1..Len(written.attrs) : written.attrs[i].style # BOOL

\* the token emitted for the described tag: the text before it is 'X'
TheTag == tokens[2]

\* attribute i of the described tag is in the map, with its value
Mapped(i) ==
    /\ JoinLower(written.attrs[i].name) \in DOMAIN TheTag.attributes
    /\ TheTag.attributes[JoinLower(written.attrs[i].name)] =
           Join(written.attrs[i].v)

\* the claim as it stands
C14_AttrValuesAsWritten ==
    (pc = "tokenized" /\ ValuedStartTag) =>
        /\ Len(tokens) = 3
        /\ TheTag.type = START_TAG
        /\ \A i \in 1..Len(written.attrs) : Mapped(i)

\* the names of the described tag differ after lower-casing
DistinctNames ==
    \A i, j \in 1..Len(written.attrs) :
        i # j => JoinLower(written.attrs[i].name) #
                     JoinLower(written.attrs[j].name)

\* every unquoted value of the described tag has a character
UnquotedNonEmpty ==
    \A i \in 1..Len(written.attrs) :
        written.attrs[i].style = UQ => written.attrs[i].v # <<>>

\* C14 as amended: the same, for tags whose attribute names differ after
\* lower-casing and whose unquoted values are not empty
C14_DistinctAttrValuesAsWritten ==
    (pc = "tokenized" /\ ValuedStartTag /\ DistinctNames
                     /\ UnquotedNonEmpty) =>
        /\ Len(tokens) = 3
        /\ TheTag.type = START_TAG
        /\ \A i \in 1..Len(written.attrs) : Mapped(i)

\* <p A="V" b=V> or <p b='V' a=V>: two styles in one tag, both recorded
C14_Witness ==
    /\ pc = "tokenized" /\ ValuedStartTag /\ DistinctNames
    /\ UnquotedNonEmpty
    /\ Len(written.attrs) = 2
    /\ written.attrs[1].style \in {DQ, SQ} /\ written.attrs[1].v = <<"V">>
    /\ written.attrs[2].style = UQ
    /\ DOMAIN TheTag.attributes = {"a", "b"}
    /\ TheTag.attributes["b"] = "V"

(***************************************************************************)
(* C15: an attribute name inside a tag that is followed by whitespace, '/' *)
(* or '>' instead of '=' is recorded in the emitted token's attribute map  *)
(* with the empty string as its value.  In a described tag such a name is  *)
(* an attribute of style BOOL: the next character is the space before the  *)
(* next attribute, or the '/' or '>' that closes the tag.  (After  name=   *)
(* with nothing behind the '=' the next word is that attribute's value,    *)
(* not a name, so the described tags taken here have no empty unquoted     *)
(* value.)                                                                 *)
(***************************************************************************)
BooleanAttrs == {i \in 1..Len(written.attrs) : written.attrs[i].style = BOOL}

RecordedEmpty(i) ==
    /\ JoinLower(written.attrs[i].name) \in DOMAIN TheTag.attributes
    /\ TheTag.attributes[JoinLower(written.attrs[i].name)] = ""

\* the claim as it stands
C15_BooleanAttrEmpty ==
    (pc = "tokenized" /\ UnquotedNonEmpty) =>
        \A i \in BooleanAttrs : RecordedEmpty(i)

\* a later attribute of the tag has the same name and an '='
Rewritten(i) ==
    \E j \in (i + 1)..Len(written.attrs) :
        /\ JoinLower(written.attrs[j].name) =
               JoinLower(written.attrs[i].name)
        /\ written.attrs[j].style # BOOL

\* C15 as amended: the same, unless the name is written again later in the
\* tag with an '='
C15_BooleanAttrEmptyUnlessRewritten ==
    (pc = "tokenized" /\ UnquotedNonEmpty) =>
        \A i \in BooleanAttrs : ~Rewritten(i) => RecordedEmpty(i)

\* <p A b/>: one name followed by a space, one by '/', both recorded
C15_Witness ==
    /\ pc = "tokenized"
    /\ written.close = <<"/", ">">>
    /\ BooleanAttrs = {1, 2}
    /\ written.attrs[1].name = <<"A">>
    /\ TheTag.self_closing
    /\ DOMAIN TheTag.attributes = {"a", "b"}
    /\ TheTag.attributes["a"] = "" /\ TheTag.attributes["b"] = ""

(***************************************************************************)
(* C16: attribute keys are unique per token and the last write wins: when  *)
(* the same attribute name (after lower-casing) occurs several times in    *)
(* one tag, the emitted token has a single entry for it whose value is the *)
(* value of the last occurrence (empty string if the last occurrence is a  *)
(* boolean attribute).  An occurrence is a boolean attribute or an         *)
(* attribute with a value, so the described tags taken here have no        *)
(* unquoted value without characters; and an unquoted value runs up to the *)
(* next space or '>', so they do not end in  name=v/>  either, whose value *)
(* is v/.  The keys of the map are the lower-cased names, one key for the  *)
(* occurrences of one name.                                                *)
(***************************************************************************)
\* the text of the described tag spells its attributes as described
SpelledAsDescribed ==
    /\ UnquotedNonEmpty
    /\ (written.attrs # <<>> /\ written.close = <<"/", ">">>) =>
           written.attrs[Len(written.attrs)].style # UQ

WrittenNames ==
    {JoinLower(written.attrs[i].name) : i \in 1..Len(written.attrs)}

Occurrences(name) ==
    {i \in 1..Len(written.attrs) : JoinLower(written.attrs[i].name) = name}

LastOccurrence(name) == written.attrs[SetMax(Occurrences(name))]

RECURSIVE Balanced(_, _, _)
Balanced(toks, i, open) ==
    IF i > Len(toks) THEN open = <<>>
    ELSE IF toks[i].type = START_TAG
    THEN /\ ~(toks[i].name \in SPECIAL_END_TAGS /\ "p" \in Range(open))
         /\ Balanced(toks, i + 1, Append(open, toks[i].name))
    ELSE IF toks[i].type = END_TAG
    THEN /\ open # <<>>
         /\ open[Len(open)] = toks[i].name
         /\ Balanced(toks, i + 1, SubSeq(open, 1, Len(open) - 1))
    ELSE Balanced(toks, i + 1, open)

WellFormed == Balanced(tokens, 1, <<>>)

IsStartTag(t) == t.type = START_TAG

StartTagNames ==
    [i \in 1..Len(SelectSeq(tokens, IsStartTag)) |->
        SelectSeq(tokens, IsStartTag)[i].name]

C17_PreOrderIsTagOrder ==
    (pc = "done" /\ WellFormed) =>
        Tail(PreOrder(nodes, 1)) = StartTagNames

\* <h1><p></p></h1>: a p nested in a block element, both closed in order
C17_Witness ==
    /\ pc = "done" /\ WellFormed
    /\ PreOrder(nodes, 1) = <<"html", "h1", "p">>
    /\ nodes[3].parent = 2

(***************************************************************************)
(* C18: after any sequence of tokens, every node the builder has created   *)
(* for a start-tag token has exactly one parent and occurs exactly once in *)
(* that parent's children list, while the synthetic root has no parent;    *)
(* hence the returned tree has exactly as many non-root nodes as the token *)
(* stream has start-tag tokens.                                            *)
(***************************************************************************)
\* the positions of child in the children list of parent
PositionsIn(parent, child) ==
    {i \in 1..Len(nodes[parent].children) : nodes[parent].children[i] = child}

C18_OneParentEach ==
    /\ \A n \in Handles :
           IF node_token[n] = 0
           THEN nodes[n].parent = 0
           ELSE /\ nodes[n].parent \in Handles
                /\ Cardinality(PositionsIn(nodes[n].parent, n)) = 1
                /\ \A m \in Handles \ {nodes[n].parent} :
                       PositionsIn(m, n) = {}
    /\ pc = "done" =>
           count(nodes, 1) - 1 = Len(SelectSeq(tokens, IsStartTag))

(***************************************************************************)
(* C19: for every tree, audit returns score = max(0, 100 - 10 * number of  *)
(* violations), so the score is always in 0..100 and never negative, and   *)
(* status is "PASS" exactly when the score is 100 (no violation) and       *)
(* "FAIL" otherwise; a tree with one div directly under p gives FAIL,      *)
(* score 90, one violation.                                                *)
(***************************************************************************)
\* the tree of test_compliance_auditor_invalid: a p with one div child
DivUnderP == WideTree(1)

C19_ScoreAndStatus ==
    pc = "audited" =>
        LET n == Len(audit_result.violations)
        IN  /\ audit_result.score = (IF 10 * n >= 100 THEN 0 ELSE 100 - 10 * n)
            /\ audit_result.score \in 0..100
            /\ audit_result.status \in {"PASS", "FAIL"}
            /\ audit_result.status = "PASS" <=> audit_result.score = 100
            /\ audit_result.score = 100 <=> n = 0
            /\ nodes = DivUnderP =>
                   /\ audit_result.status = "FAIL"
                   /\ audit_result.score = 90
                   /\ n = 1

\* a p with twelve div children: twelve violations, score 0
C19_Witness ==
    /\ pc = "audited"
    /\ Len(audit_result.violations) = 12
    /\ audit_result.score = 0
    /\ audit_result.status = "FAIL"

(***************************************************************************)
(* C20: the violation list returned by audit has exactly one message for   *)
(* every direct parent/child pair of the tree in which the child's name is *)
(* in the forbidden set of the parent's name, and no other message: a      *)
(* forbidden name that is only a deeper descendant (not a direct child)    *)
(* yields no violation, and the result of one audit does not depend on     *)
(* earlier audits made with the same auditor.                              *)
(***************************************************************************)
\* the pairs <<parent, position of the child>> that violate the table
ViolatingPairs ==
    {pair \in Handles \X (1..Len(nodes)) :
        /\ pair[2] <= Len(nodes[pair[1]].children)
        /\ InList(nodes[nodes[pair[1]].children[pair[2]]].name,
                  forbidden(nodes[pair[1]].name))}

PairsNamed(child_name, parent_name) ==
    {pair \in ViolatingPairs :
        /\ nodes[pair[1]].name = parent_name
        /\ nodes[nodes[pair[1]].children[pair[2]]].name = child_name}

MessagesFor(child_name, parent_name) ==
    {k \in 1..Len(audit_result.violations) :
        audit_result.violations[k] = Message(child_name, parent_name)}

NamesInTree == {nodes[n].name : n \in Handles}

C20_OneMessagePerPair ==
    pc = "audited" =>
        /\ Len(audit_result.violations) = Cardinality(ViolatingPairs)
        /\ \A c \in NamesInTree, q \in NamesInTree :
               Cardinality(MessagesFor(c, q)) = Cardinality(PairsNamed(c, q))

\* the second audit of an auditor whose first audit found violations; the
\* tree is p > b > div, where div is a descendant of p but not its child
C20_Witness ==
    /\ pc = "audited" /\ audits = 2
    /\ returned # <<>> /\ returned[1].violations # <<>>
    /\ Len(nodes) = 3
    /\ nodes[1].name = "p" /\ nodes[2].name = "b" /\ nodes[3].name = "div"
    /\ nodes[2].parent = 1 /\ nodes[3].parent = 2
    /\ audit_result.violations = <<>>

(***************************************************************************)
(* C21: for every tree and every caller-supplied max_depth and max_nodes,  *)
(* verify reports node_count as the number of nodes, the root included,    *)
(* and max_depth as the number of levels on the longest path from the root *)
(* to a leaf (1 for a lone root); it emits exactly one issue per limit     *)
(* that is strictly exceeded, and valid is true exactly when node_count <= *)
(* max_nodes and the depth <= max_depth.                                   *)
(***************************************************************************)
\* the level of a node, counted along the parent links: 1 for the root
RECURSIVE Level(_, _)
Level(ns, n) == IF ns[n].parent = 0 THEN 1 ELSE 1 + Level(ns, ns[n].parent)

Levels(ns) == SetMax({Level(ns, n) : n \in 1..Len(ns)})

NodesUnder(ns, root) == Cardinality(Descendants(ns, root)) + 1

C21_VerifyMetricsAndIssues ==
    tool.op = "verify" =>
        LET r == tool.result
            over_nodes == NodesUnder(nodes, 1) > tool.max_nodes
            over_depth == Levels(nodes) > tool.max_depth
        IN  /\ r.node_count = NodesUnder(nodes, 1)
            /\ r.max_depth = Levels(nodes)
            /\ Len(r.issues) = (IF over_nodes THEN 1 ELSE 0)
                               + (IF over_depth THEN 1 ELSE 0)
            /\ over_nodes <=>
                   NodeCountIssue(NodesUnder(nodes, 1), tool.max_nodes)
                       \in Range(r.issues)
            /\ over_depth <=>
                   DepthIssue(Levels(nodes), tool.max_depth)
                       \in Range(r.issues)
            /\ r.valid <=> (r.node_count <= tool.max_nodes
                            /\ Levels(nodes) <= tool.max_depth)

\* test_integrity_depth: three nested div elements and max_depth = 2 give
\* valid = false and a depth message (here with a node limit that holds)
C21_Witness ==
    /\ tool.op = "verify"
    /\ nodes = NestedDivs
    /\ tool.max_depth = 2 /\ tool.max_nodes = 3
    /\ tool.result.valid = FALSE
    /\ tool.result.issues = <<"Node count (4) exceeds limit (3)",
                              "DOM depth (4) exceeds limit (2)">>

(***************************************************************************)
(* C22: for every complexity and every sequence of random choices, the     *)
(* text generate_wild_html returns is tag-balanced: every opened tag name  *)
(* is matched by exactly one later close tag in last-in-first-out order,   *)
(* and the shadow stack is empty when the generator returns.  While it     *)
(* runs, the names opened and not yet closed in the text are the stack.    *)
(***************************************************************************)
\* the name a piece of the text opens, or None
Opens(piece) ==
    IF \E i \in 1..Len(tags) : piece = "<" \o tags[i] \o ">"
    THEN tags[CHOOSE i \in 1..Len(tags) : piece = "<" \o tags[i] \o ">"]
    ELSE IF \E id \in FuzzIds : piece = AttrOpenTag(id) THEN "div"
    ELSE None

\* the name a piece of the text closes, or None
Closes(piece) ==
    IF \E i \in 1..Len(tags) : piece = "</" \o tags[i] \o ">"
    THEN tags[CHOOSE i \in 1..Len(tags) : piece = "</" \o tags[i] \o ">"]
    ELSE None

Unbalanced == <<None>>

\* the names left open by the pieces from i on, read after those of open,
\* innermost last; Unbalanced when a close tag does not close the innermost
RECURSIVE OpenAfter(_, _, _)
OpenAfter(pieces, i, open) ==
    IF i > Len(pieces) THEN open
    ELSE IF Opens(pieces[i]) # None
         THEN OpenAfter(pieces, i + 1, Append(open, Opens(pieces[i])))
    ELSE IF Closes(pieces[i]) # None
         THEN IF open # <<>> /\ open[Len(open)] = Closes(pieces[i])
              THEN OpenAfter(pieces, i + 1, SubSeq(open, 1, Len(open) - 1))
              ELSE Unbalanced
    ELSE OpenAfter(pieces, i + 1, open)

C22_FuzzerBalanced ==
    caller = "fuzzer" =>
        /\ OpenAfter(wild_html, 1, <<>>) = fuzz_stack
        /\ pc = "returned" => OpenAfter(wild_html, 1, <<>>) = <<>>

\* two tags opened in a walk of two steps, both closed after the walk
C22_Witness ==
    /\ caller = "fuzzer" /\ pc = "returned"
    /\ complexity = 2
    /\ wild_html = <<"<ul>", "<p>", "</p>", "</ul>">>

(***************************************************************************)
(* C23: compare reports matches = true exactly when the pre-order sequence *)
(* of node names of the given tree equals element for element the name     *)
(* sequence extracted from the reference parse; the two reported counts    *)
(* are the lengths of these sequences, and attributes and text never       *)
(* influence the result.  As stated, the sequence of the tree is taken     *)
(* over every node except the synthetic root and the body-wrapper nodes;   *)
(* as amended, over every node named neither "html" nor "body", whether    *)
(* it is the root or not.                                                  *)
(***************************************************************************)
\* the handles of the tree in depth-first pre-order, from the parent links
\* and the order of the handles among siblings
RECURSIVE PreOrderHandles(_, _)
PreOrderHandles(ns, n) ==
    <<n>> \o Flatten([i \in 1..Len(ns[n].children) |->
                         PreOrderHandles(ns, ns[n].children[i])])

\* the names of the handles of s that satisfy Keep, in the order of s
NamesOf(ns, s, Keep(_)) ==
    LET kept == SelectSeq(s, Keep)
    IN  [i \in 1..Len(kept) |-> ns[kept[i]].name]

\* the names of the reference tree that are tags other than html and body
RefNames ==
    LET soup == tool.soup
        s == PreOrderHandles(soup, 1)
    IN  NamesOf(soup, s, LAMBDA n : soup[n].name \notin
                                        {None, DOCUMENT, "html", "body"})

OracleReports(our_names) ==
    /\ tool.result.matches <=> our_names = RefNames
    /\ tool.result.our_tags = Len(our_names)
    /\ tool.result.ref_tags = Len(RefNames)

HasId(n, id) ==
    "id" \in DOMAIN nodes[n].attributes /\ nodes[n].attributes["id"] = id

\* the handles with that id, in depth-first pre-order
WithId(id) == SelectSeq(PreOrderHandles(nodes, 1), LAMBDA n : HasId(n, id))

C24_FirstPreOrderId ==
    tool.op = "select_by_id" =>
        /\ IF \E n \in Handles : HasId(n, tool.target_id)
           THEN tool.result = WithId(tool.target_id)[1]
           ELSE tool.result = 0
        /\ nodes = tool.tree

\* two children of the root carry the id: the node returned is the first
\* of them
C24_Witness ==
    /\ tool.op = "select_by_id"
    /\ Len(WithId(tool.target_id)) = 2
    /\ tool.result = WithId(tool.target_id)[1]
    /\ tool.result # 1
    /\ nodes[WithId(tool.target_id)[2]].parent = 1
    /\ nodes[tool.result].parent = 1

(***************************************************************************)
(* C25: select_by_tag(root, name) returns exactly the nodes of the tree    *)
(* whose name equals name (the start node included when it matches), each  *)
(* once, in depth-first pre-order; the tree is left unchanged.             *)
(***************************************************************************)
C25_AllPreOrderTags ==
    tool.op = "select_by_tag" =>
        /\ tool.result =
               SelectSeq(PreOrderHandles(nodes, 1),
                         LAMBDA n : nodes[n].name = tool.tag_name)
        /\ Range(tool.result) =
               {n \in Handles : nodes[n].name = tool.tag_name}
        /\ Cardinality(Range(tool.result)) = Len(tool.result)
        /\ nodes = tool.tree

\* the start node and a node below its child are both returned, the start
\* node first
C25_Witness ==
    /\ tool.op = "select_by_tag"
    /\ Len(tool.result) = 2
    /\ tool.result[1] = 1
    /\ nodes[tool.result[2]].parent # 1

Ended(c) == c.pc \in {"done"} \cup Exceptions

SameAsAlone(c) ==
    /\ returned[c.id].html = c.html
    /\ c.nodes = returned[c.id].tree
    /\ c.events = returned[c.id].events

C27_InterleavedAsAlone ==
    running # 0 =>
        /\ Ended(RunningCall) => SameAsAlone(RunningCall)
        /\ Ended(parked) => SameAsAlone(parked)

\* the first call was left in the middle of its scan, and the second call
\* has run to its end meanwhile: a tree with elements and their events
C27_Witness ==
    /\ running = 2
    /\ Ended(RunningCall)
    /\ parked.pc = "tokenize" /\ parked.pos > 0 /\ parked.tokens # <<>>
    /\ html # parked.html
    /\ Len(nodes) > 2
    /\ Len(events) > 3

(***************************************************************************)
(* C28: throughout every parse the open-element stack is non-empty and its *)
(* bottom element is the synthetic root: no end tag (including "</html>")  *)
(* ever removes the root from the stack, so every start tag and every      *)
(* character token always has a stack-top to attach to.                    *)
(***************************************************************************)
C28_RootStaysOnStack ==
    pc \in {"build", "done"} =>
        /\ open_elements # <<>>
        /\ open_elements[1] = 1
        /\ node_token[open_elements[1]] = 0

(***************************************************************************)
(* C29: once an element has been closed (removed from the open-element     *)
(* stack by a matching end tag or by implicit closure), it is finished: no *)
(* node and no text is added afterwards to that element or to any of its   *)
(* descendants.                                                            *)
(***************************************************************************)
\* n was put on the stack for its start tag and is no longer on it
Closed(n) ==
    /\ node_token[n] # 0
    /\ ~tokens[node_token[n]].self_closing
    /\ n \notin Range(open_elements)

C29_ClosedIsFinished ==
    [][InTokenLoop =>
         \A n \in Handles :
             Closed(n) =>
                 \A m \in {n} \cup Descendants(nodes, n) :
                     /\ nodes'[m].children = nodes[m].children
                     /\ nodes'[m].text_content = nodes[m].text_content]_vars

(***************************************************************************)
(* C30: when the input ends inside a tag (after '<' and at least one       *)
(* letter, before the closing '>'), tokenize does not lose the tag: it     *)
(* emits the tag token collected so far, possibly with an incomplete name  *)
(* or without its unfinished attribute, before the EOF token.              *)
(***************************************************************************)
\* a '<' followed by a letter, and no '>' anywhere after it
EndsInsideTag ==
    \E i \in 1..(Len(html) - 1) :
        /\ html[i] = "<"
        /\ isalpha(html[i + 1])
        /\ \A j \in (i + 1)..Len(html) : html[j] # ">"

C30_UnfinishedTagEmitted ==
    (pc = "tokenized" /\ EndsInsideTag) =>
        /\ Len(tokens) >= 2
        /\ tokens[Len(tokens)].type = EOF
        /\ tokens[Len(tokens) - 1].type \in {START_TAG, END_TAG}

(***************************************************************************)
(* C31: every call of HTMLTokenizer.tokenize starts in state DATA with no  *)
(* pending token or attribute, also when the same tokenizer instance is    *)
(* reused: for any sequence of tokenize calls on one instance, the tokens  *)
(* returned by each call are the tokens a fresh tokenizer returns for that *)
(* call's input.                                                           *)
(***************************************************************************)
C31_ReusedLikeFresh ==
    (caller = "tokenize" /\ Len(returned) = 2) =>
        /\ pc = "start" =>
               /\ state = DATA
               /\ current_token = NoToken
               /\ current_attr_name = "" /\ current_attr_value = ""
        /\ pc = "tokenized" =>
               /\ returned[1].html = html
               /\ tokens = returned[1].tokens

(***************************************************************************)
(* C32: the text of every node returned by parse equals the concatenation, *)
(* in input order, of the data of exactly those character tokens that were *)
(* processed while that node was the top of the open-element stack; in     *)
(* particular text written before a child element and text written after   *)
(* the child's end tag both end up, in order, in the parent's text.        *)
(* Step by step: a character token adds its data at the end of the text of *)
(* the stack top and of no other node, no other token changes any text,    *)
(* and a node starts with no text.                                         *)
(***************************************************************************)
StackTop == open_elements[Len(open_elements)]

C32_TextGoesToStackTop ==
    [][InTokenLoop =>
         /\ \A n \in Handles :
                nodes'[n].text_content =
                    IF token.type = CHARACTER /\ open_elements # <<>>
                       /\ n = StackTop
                    THEN nodes[n].text_content \o token.data
                    ELSE nodes[n].text_content
         /\ \A n \in (1..Len(nodes')) \ Handles :
                nodes'[n].text_content = ""]_vars

\* <p>a<b></b>x</p>: the text before the child and the text after its end
\* tag are the text of the p, in that order, and the child has none
C32_Witness ==
    /\ pc = "done"
    /\ html = ParentTextAroundChild
    /\ Len(nodes) = 3
    /\ nodes[2].name = "p" /\ nodes[2].text_content = "ax"
    /\ nodes[3].name = "b" /\ nodes[3].text_content = ""
    /\ nodes[3].parent = 2

(***************************************************************************)
(* C33: the sandbox result channel is one-shot and all-or-nothing: per     *)
(* safe_parse call the worker puts at most one message on the channel, and *)
(* the value safe_parse returns is either exactly that complete message or *)
(* a failure record built by the caller; a partially transferred tree is   *)
(* never returned.                                                         *)
(***************************************************************************)
C33_OneShotAllOrNothing ==
    /\ [](caller = "returned" =>
            \/ result \in {TimeoutResult, NoResult}
            \/ queue # NoMessage /\ result = queue)
    /\ [][queue # NoMessage => queue' = queue]_vars

\* the worker's message, a tree with an element, is what the caller returns
C33_Witness ==
    /\ caller = "returned"
    /\ pc = "done"
    /\ result = queue
    /\ result.success = TRUE
    /\ result.tree.children # <<>>


(***************************************************************************)
(* C34: the trace returned by parse_with_trace records a single pass over  *)
(* the input: it holds exactly one tokenization_start event, as many       *)
(* tag_emitted events as there are start-tag and end-tag tokens in the     *)
(* returned token list, and parsing_complete is its last event.            *)
(***************************************************************************)
\* the events of one type, in order
EventsOfType(type) == SelectSeq(events, LAMBDA e : e.type = type)

\* the start-tag and end-tag tokens of a token list
TagTokensOf(toks) ==
    SelectSeq(toks, LAMBDA t : t.type \in {START_TAG, END_TAG})

C34_TraceIsSinglePass ==
    (caller = "parse_with_trace" /\ pc = "returned") =>
        /\ Len(EventsOfType("tokenization_start")) = 1
        /\ Len(EventsOfType("tag_emitted")) = Len(TagTokensOf(returned[1].tokens))
        /\ events[Len(events)].type = "parsing_complete"


(***************************************************************************)
(* C35: at every step of tree building the open-element stack is an        *)
(* ancestor chain: each element on the stack is a proper descendant of     *)
(* every element below it, so the stack top is the most deeply nested open *)
(* element and a new node is always appended on the rightmost path of the  *)
(* tree.                                                                   *)
(***************************************************************************)
\* every stack entry lies strictly beneath each entry below it
AncestorChain ==
    \A i, j \in 1..Len(open_elements) :
        i < j => open_elements[j] \in
                     Descendants(nodes, open_elements[i]) \ {open_elements[i]}

\* the root, its last child, that child's last child, ...
RECURSIVE RightmostPath(_, _)
RightmostPath(ns, n) ==
    IF ns[n].children = <<>> THEN {n}
    ELSE {n} \cup RightmostPath(ns, ns[n].children[Len(ns[n].children)])

C35_StackIsAncestorChain ==
    /\ [](pc = "build" => AncestorChain)
    /\ [][Len(nodes') > Len(nodes) /\ Len(nodes) > 0 =>
              Len(nodes') \in RightmostPath(nodes', 1)]_vars


(***************************************************************************)
(* C36: recovery by reconsume loses no character: when a character is      *)
(* invalid after '<' (not a letter and not '/'), terminates an attribute    *)
(* name (whitespace, '/' or '>'), or terminates an unquoted attribute      *)
(* value (whitespace or '>'), the tokenizer changes state without          *)
(* advancing the position, and the same character is processed again,      *)
(* exactly once, in the new state.                                         *)
(***************************************************************************)
\* the scan loop is about to read a character of one of the three kinds
ReconsumeCase ==
    /\ InLoop /\ char # None
    /\ \/ state = TAG_OPEN /\ ~isalpha(char) /\ char # "/"
       \/ state = ATTR_NAME /\ (isspace(char) \/ char \in {"/", ">"})
       \/ state = ATTR_VALUE_UQ /\ (isspace(char) \/ char = ">")

C36_ReconsumeLosesNothing ==
    \* the character is kept: the state changes, the position does not, and
    \* the loop goes on
    /\ [][ReconsumeCase /\ iterations' # iterations =>
              /\ state' # state
              /\ pos' = pos
              /\ pc' = "tokenize"
              /\ replayed']_vars
    \* the next iteration reads that character in the new state ...
    /\ [](replayed /\ pc = "tokenize" => InLoop /\ char # None)
    \* ... and consumes it
    /\ [][replayed /\ iterations' # iterations =>
              /\ pos' = pos + 1
              /\ ~replayed']_vars

\* '>' ended an unquoted value and has been read a second time, before the
\* attribute name: the tag is emitted with that value
C36_Witness ==
    /\ pc = "tokenize" /\ ~replayed /\ pos > 1
    /\ html[pos] = ">" /\ html[pos - 1] \notin {">", " ", "=", "'", "\""}
    /\ state = DATA
    /\ tokens # <<>> /\ tokens[Len(tokens)].type = START_TAG
    /\ \E k \in DOMAIN tokens[Len(tokens)].attributes :
           tokens[Len(tokens)].attributes[k] # ""
    /\ iterations > pos


(***************************************************************************)
(* C37, as stated: the trace is append-only with a parallel error log:     *)
(* after any sequence of add_event, add_error and finalize calls, the      *)
(* events recorded earlier are an unchanged prefix of the event list, and  *)
(* the number of parse_error events equals the number of entries in the    *)
(* error log, in the same order.                                           *)
(***************************************************************************)
\* s is the beginning of t
IsPrefixOf(s, t) ==
    /\ Len(s) <= Len(t)
    /\ \A i \in 1..Len(s) : s[i] = t[i]

\* the messages of the parse_error events, in order
ErrorEventMessages ==
    LET errs == EventsOfType("parse_error")
    IN  [i \in 1..Len(errs) |-> errs[i].details.message]

C37_AppendOnlyParallelLog ==
    /\ [][IsPrefixOf(events, events')]_vars
    /\ [](caller = "trace" => ErrorEventMessages = parse_errors)

(***************************************************************************)
(* C37, amended: the events recorded earlier are an unchanged prefix of    *)
(* the event list after any sequence of add_event, add_error and finalize  *)
(* calls, and, provided add_event was never called with the event type     *)
(* parse_error, the number of parse_error events equals the number of      *)
(* entries in the error log, in the same order.                            *)
(***************************************************************************)
\* add_event was never given the type parse_error by the caller
NoDirectParseError ==
    \A i \in 1..Len(trace_calls) :
        ~(trace_calls[i].op = "add_event" /\ trace_calls[i].arg = "parse_error")

C37_AppendOnlyParallelLogOfAddError ==
    /\ [][IsPrefixOf(events, events')]_vars
    /\ [](caller = "trace" /\ NoDirectParseError =>
              ErrorEventMessages = parse_errors)

\* two different errors were logged with an ordinary event between them, and
\* the trace was finalized
C37_Witness ==
    /\ caller = "trace" /\ NoDirectParseError
    /\ Len(trace_calls) = 4
    /\ trace_calls[1].op = "add_error" /\ trace_calls[2].op = "add_event"
    /\ trace_calls[3].op = "add_error" /\ trace_calls[4].op = "finalize"
    /\ parse_errors = <<"a", "b">>
    /\ Len(events) = 3
    /\ end_time # None


(***************************************************************************)
(* C38: every implicit closure is recorded in the trace: an                *)
(* implicit_p_closed event naming the triggering tag is appended exactly   *)
(* when a block-set start tag is processed while a p is on the             *)
(* open-element stack, and it is immediately followed by the               *)
(* start_tag_processed event of that same tag.                             *)
(***************************************************************************)
\* a p element is somewhere on the open-element stack
POnStack ==
    \E i \in 1..Len(open_elements) : nodes[open_elements[i]].name = "p"

\* the builder is about to process a block-set start tag with a p open
BlockStartWithPOpen ==
    /\ InTokenLoop /\ token.type = START_TAG
    /\ token.name \in SPECIAL_END_TAGS
    /\ POnStack

ImplicitEvents(ev) == SelectSeq(ev, LAMBDA e : e.type = "implicit_p_closed")

C38_ImplicitClosureRecorded ==
    \* processing such a tag appends the two events, in this order
    /\ [][BlockStartWithPOpen /\ idx' # idx =>
              /\ Len(events') = Len(events) + 2
              /\ IsPrefixOf(events, events')
              /\ events'[Len(events) + 1] =
                     [type |-> "implicit_p_closed",
                      details |-> [before_tag |-> token.name]]
              /\ events'[Len(events) + 2].type = "start_tag_processed"
              /\ events'[Len(events) + 2].details.tag = token.name]_vars
    \* nothing else appends an implicit_p_closed event
    /\ [][ImplicitEvents(events') # ImplicitEvents(events) =>
              BlockStartWithPOpen /\ idx' # idx]_vars
    \* in the trace the event is always followed by start_tag_processed of
    \* the tag it names
    /\ [](\A i \in 1..Len(events) :
              events[i].type = "implicit_p_closed" =>
                  /\ i < Len(events)
                  /\ events[i + 1].type = "start_tag_processed"
                  /\ events[i + 1].details.tag = events[i].details.before_tag)

\* <h1> closed a p that was not the top of the stack: the p is gone from
\* the stack, the element above it is still there, and the two events are
\* the last of the trace
C38_Witness ==
    /\ pc = "build" /\ Len(events) >= 2
    /\ events[Len(events) - 1].type = "implicit_p_closed"
    /\ events[Len(events)].type = "start_tag_processed"
    /\ events[Len(events)].details.tag = "h1"
    /\ ~POnStack
    /\ Len(open_elements) >= 3

====
